---- MODULE Spec2Model ----
(***************************************************************************)
(* State-machine model of civit_model_loader/thumbnail.py: the             *)
(* ThumbnailCache (a bounded, memory-aware LRU cache of base64 JPEG        *)
(* thumbnails keyed by path string and modification time), the threads     *)
(* that call it, the wall clock it reads and the file store it reads.      *)
(*                                                                         *)
(* A file path is a triple <<dir, stem, ext>> (ext is the final extension  *)
(* as written, "" when there is none).  A payload is the base64 text of    *)
(* the JPEG thumbnail of one file version; it is represented by the        *)
(* version it was decoded from (src) and its length in characters (len).   *)
(* hashlib.md5 is taken to be injective on the finitely many key strings   *)
(* of the model, so a key is represented by the fields of its key string.  *)
(***************************************************************************)
EXTENDS Integers, Sequences, FiniteSets, TLC

VARIABLES
    max_cache_size,         \* ThumbnailCache.max_cache_size
    max_memory_bytes,       \* ThumbnailCache.max_memory_bytes
    _cache,                 \* ThumbnailCache._cache: key -> cache item
    _access_times,          \* ThumbnailCache._access_times, in dict (insertion) order
    _current_memory_usage,  \* ThumbnailCache._current_memory_usage
    _lock,                  \* ThumbnailCache._lock (RLock): owner and hold count
    now,                    \* the value time.time() returns
    files,                  \* the file store: file -> kind, mtime, content
    pc,                     \* per thread: the statement it is at
    op,                     \* per thread: the operation it called last
    path,                   \* per thread: file_path argument
    mtime,                  \* per thread: local mtime
    cache_key,              \* per thread: local cache_key
    thumbnail,              \* per thread: local thumbnail_base64
    ret,                    \* per thread: what the last call returned
    generated,              \* per thread: the call ran _create_thumbnail
    hit,                    \* per thread: outcome of the membership test
    dirty,                  \* per thread: the file was changed during the call
    evicted,                \* per thread: entries the call's _evict_lru removed
    origin,                 \* observer: key -> the (file_path, mtime) it was stored for
    prev,                   \* observer of the last undisturbed lookup of Watched
    lru_obs,                \* observer of the call sequence A, B, A, C
    callers,                \* the threads that call the cache
    inputs,                 \* the paths the callers pass
    listing,                \* the list_files request being served
    downloads,              \* DownloadManager.downloads: id -> DownloadInfo
    active_downloads,       \* DownloadManager.active_downloads: id -> task
    disk,                   \* the file at each download's file_path: its
                            \* size in chunks, or Missing
    cancel_obs,             \* observer of the manager's calls: what the last
                            \* one returned, the ids cancel_download accepted
    conversions,            \* ConversionManager.conversions: id -> ConversionInfo
    active_conversions,     \* ConversionManager.active_conversions: id ->
                            \* task, with the locals of its coroutine
    temp_dirs,              \* the ids whose temporary directory is on disk
    conv_obs,               \* observer: for every id handed out, what its
                            \* job did and whether it was cancelled
    watch                   \* observer of the last calls and of the cache as
                            \* it was when the call under way began

vars == <<max_cache_size, max_memory_bytes, _cache, _access_times,
          _current_memory_usage, _lock, now, files, pc, op, path, mtime,
          cache_key, thumbnail, ret, generated, hit, dirty, evicted, origin,
          prev, lru_obs, callers, inputs, listing, downloads,
          active_downloads, disk, cancel_obs, conversions,
          active_conversions, temp_dirs, conv_obs, watch>>

cacheVars == <<_cache, _access_times, _current_memory_usage, origin>>
cfgVars == <<max_cache_size, max_memory_bytes, callers, inputs>>
keyVars == <<mtime, cache_key>>
dmVars == <<downloads, active_downloads, disk, cancel_obs>>
cmVars == <<conversions, active_conversions, temp_dirs, conv_obs>>

----------------------------------------------------------------------------
(* Bounds of the model *)

MaxCacheSizeCfg == 2    \* max_cache_size is drawn from 0..MaxCacheSizeCfg
MaxMemoryMbCfg == 1     \* max_memory_mb is drawn from 0..MaxMemoryMbCfg
MaxTime == 1            \* time.time() readings are drawn from 0..MaxTime
MaxMtime == 1           \* a file is rewritten at most MaxMtime times
TraceLen == 3           \* the observer remembers the last TraceLen calls
MaxDownloads == 2       \* add_download succeeds at most MaxDownloads times
MaxChunks == 2          \* a download writes at most MaxChunks chunks
MaxConversions == 2     \* add_conversion succeeds at most MaxConversions times

(* Program constants *)

ThumbnailWidth == 150
ThumbnailHeight == 150
DefaultMaxCacheSize == 100
DefaultMaxMemoryMb == 50
thumbnail_size == <<ThumbnailWidth, ThumbnailHeight>>

BytesPerMb == 1024 * 1024

SUPPORTED_IMAGE_FORMATS ==
    {".jpg", ".jpeg", ".png", ".bmp", ".tiff", ".tif", ".webp", ".gif"}

----------------------------------------------------------------------------
(* The file store and the paths *)

\* The working directory of the process, the directory the tests fill.
Cwd == "/d"

PathA == "/d/img_a.png"
PathARel == "./img_a.png"
PathB == "/d/img_b.PNG"
PathC == "/d/img_c.jpg"
PathTxt == "/d/notes.txt"
PathMissing == "/nonexistent/file.png"
PathCorrupt == "/d/corrupt.png"
PathDir == "/d/album.gif"

AllPaths ==
    {PathA, PathARel, PathB, PathC, PathTxt, PathMissing, PathCorrupt, PathDir}

\* Names whose extension decides the lookup: a second extension after an
\* image extension, no extension, a name that is nothing but ".png", an
\* extension nobody supports, an upper-case image extension.
PathDouble == "/d/x.jpg.txt"
PathNoExt == "/d/README"
PathHidden == "/d/.png"
PathPdf == "/d/scan.pdf"
PathUpper == "/d/SHOT.JPG"

ExtPaths == {PathDouble, PathNoExt, PathHidden, PathPdf, PathUpper, PathTxt}

\* The character of s at position i, as a string.
CharAt(s, i) == SubSeq(s, i, i)

\* os.path.abspath for the paths of the model: a path that does not start
\* at the root is joined to the working directory, a leading "./" dropped.
abspath(p) ==
    IF Len(p) >= 1 /\ CharAt(p, 1) = "/" THEN p
    ELSE IF Len(p) >= 2 /\ SubSeq(p, 1, 2) = "./"
         THEN Cwd \o "/" \o SubSeq(p, 3, Len(p))
         ELSE Cwd \o "/" \o p

\* The folders list_files is asked for: the directory, one that does not
\* exist, a regular file, an empty directory.
FolderMissing == "/nonexistent/directory"
Folders == {Cwd, FolderMissing, PathTxt, PathDir}

AllFiles == {abspath(p) : p \in AllPaths \cup ExtPaths \cup Folders}

\* The files another process rewrites or removes while the cache is in use.
Writable == {abspath(PathA)}

\* Lengths in bytes of the JPEG thumbnails the images of the model encode to.
JpegSmall == 150 * 1000
JpegMid == 450 * 1000
JpegBig == 900 * 1000

Threads == {1, 2}
NoThread == 0

Image(n) == [kind |-> "file", mtime |-> 0, ok |-> TRUE, jpeg |-> n]
NotAnImage == [kind |-> "file", mtime |-> 0, ok |-> FALSE, jpeg |-> 0]
Absent(m) == [kind |-> "absent", mtime |-> m, ok |-> FALSE, jpeg |-> 0]
Directory == [kind |-> "dir", mtime |-> 0, ok |-> FALSE, jpeg |-> 0]

\* The directory the callers list, as the tests lay it out: three images, a
\* text file, a file that is no image under an image name, a directory.
InitialFiles ==
    [f \in AllFiles |->
        CASE f = abspath(PathA) -> Image(JpegSmall)
          [] f = abspath(PathB) -> Image(JpegMid)
          [] f = abspath(PathC) -> Image(JpegSmall)
          [] f = abspath(PathTxt) -> NotAnImage
          [] f = abspath(PathCorrupt) -> NotAnImage
          [] f = abspath(PathDir) -> Directory
          [] f = abspath(Cwd) -> Directory
          [] f = abspath(PathDouble) -> NotAnImage
          [] f = abspath(PathNoExt) -> Image(JpegSmall)
          [] f = abspath(PathHidden) -> Image(JpegSmall)
          [] f = abspath(PathPdf) -> NotAnImage
          [] f = abspath(PathUpper) -> Image(JpegSmall)
          [] OTHER -> Absent(0)]

isfile(p) == files[abspath(p)].kind = "file"

\* An exists() that finds every path.
exists_always(p) == TRUE

\* os.path.exists, os.path.isdir
exists(p) == files[abspath(p)].kind # "absent"
isdir(p) == files[abspath(p)].kind = "dir"

\* The position of the last "/" of p, 0 when it has none.
LastSlash(p) ==
    LET seps == {i \in 1..Len(p) : CharAt(p, i) = "/"}
    IN IF seps = {} THEN 0 ELSE CHOOSE i \in seps : \A j \in seps : j <= i

dirname(p) ==
    IF LastSlash(p) <= 1 THEN SubSeq(p, 1, LastSlash(p))
    ELSE SubSeq(p, 1, LastSlash(p) - 1)

basename(p) == SubSeq(p, LastSlash(p) + 1, Len(p))

\* os.path.join(folder, filename)
join(folder, filename) ==
    IF filename # "" /\ CharAt(filename, 1) = "/" THEN filename
    ELSE IF folder = "" \/ CharAt(folder, Len(folder)) = "/"
         THEN folder \o filename
         ELSE folder \o "/" \o filename

\* The names os.listdir(folder) returns, in no particular order.
listdir(folder) ==
    {basename(f) : f \in {g \in DOMAIN files :
                             /\ files[g].kind # "absent"
                             /\ g # abspath(folder)
                             /\ dirname(g) = abspath(folder)}}

UpperCase == "ABCDEFGHIJKLMNOPQRSTUVWXYZ"
LowerCase == "abcdefghijklmnopqrstuvwxyz"

\* str.lower of one character
lower_char(c) ==
    IF \E i \in 1..Len(UpperCase) : CharAt(UpperCase, i) = c
    THEN CharAt(LowerCase, CHOOSE i \in 1..Len(UpperCase) : CharAt(UpperCase, i) = c)
    ELSE c

\* A lower() that leaves the case as it is.
lower_identity(e) == e

\* str.lower
RECURSIVE lower(_)
lower(e) == IF e = "" THEN "" ELSE lower_char(CharAt(e, 1)) \o lower(Tail(e))

\* os.path.splitext(p)[1]: the part of the last path component from its
\* last dot on, or "" when it has no dot or only leading dots.
splitext_ext(p) ==
    LET seps == {i \in 1..Len(p) : CharAt(p, i) = "/"}
        start == IF seps = {} THEN 1
                 ELSE 1 + CHOOSE i \in seps : \A j \in seps : j <= i
        dots == {i \in start..Len(p) : CharAt(p, i) = "."}
        last == CHOOSE i \in dots : \A j \in dots : j <= i
    IN IF dots # {} /\ (\E j \in start..(last - 1) : CharAt(p, j) # ".")
       THEN SubSeq(p, last, Len(p))
       ELSE ""

\* os.path.splitext(file_path)[1].lower()
splitext_lower(p) == lower(splitext_ext(p))

\* is_image_file
is_image_file(file_path) == splitext_lower(file_path) \in SUPPORTED_IMAGE_FORMATS

----------------------------------------------------------------------------
(* Values *)

None == [tag |-> "None"]
NoKey == <<>>

\* len(base64.b64encode(b)) for len(b) = n
b64len(n) == 4 * ((n + 2) \div 3)

\* base64.b64encode(thumbnail_bytes).decode('utf-8')
b64encode(jpegBytes) ==
    [tag |-> "b64", src |-> jpegBytes.src, len |-> b64len(jpegBytes.len)]

----------------------------------------------------------------------------
(* Python dict operations; _access_times keeps the insertion order that      *)
(* min() iterates in.                                                        *)

EmptyDict == [k \in {} |-> None]

DictKeys(d) == {d[i].k : i \in 1..Len(d)}

DictGet(d, k) == d[CHOOSE i \in 1..Len(d) : d[i].k = k].t

\* A dict that puts a new key before the keys it holds.
DictSet_prepends(d, k, v) ==
    IF k \in DictKeys(d)
    THEN [i \in 1..Len(d) |-> IF d[i].k = k THEN [k |-> k, t |-> v] ELSE d[i]]
    ELSE <<[k |-> k, t |-> v]>> \o d

DictSet(d, k, v) ==
    IF k \in DictKeys(d)
    THEN [i \in 1..Len(d) |-> IF d[i].k = k THEN [k |-> k, t |-> v] ELSE d[i]]
    ELSE Append(d, [k |-> k, t |-> v])

\* A del that leaves the entry in place.
DictDel_keeps(d, k) == d

DictDel(d, k) == SelectSeq(d, LAMBDA e : e.k # k)

FcnSet(f, k, v) == [x \in DOMAIN f \cup {k} |-> IF x = k THEN v ELSE f[x]]

\* A del that leaves the dict as it is.
FcnDel_keeps(f, k) == f

FcnDel(f, k) == [x \in DOMAIN f \ {k} |-> f[x]]

RECURSIVE SumSizes(_, _)
SumSizes(f, ks) ==
    IF ks = {} THEN 0
    ELSE LET k == CHOOSE x \in ks : TRUE
         IN f[k].size + SumSizes(f, ks \ {k})

----------------------------------------------------------------------------
(* ThumbnailCache: pure parts *)

\* A key that leaves the modification time out.
_generate_cache_key_noMtime(file_path, mt) ==
    <<file_path, 0, thumbnail_size[1], thumbnail_size[2]>>

\* A key made from the absolute path instead of the path as passed.
_generate_cache_key_abspath(file_path, mt) ==
    <<abspath(file_path), mt, thumbnail_size[1], thumbnail_size[2]>>

\* _generate_cache_key: md5 of "{file_path}:{mtime}:{w}x{h}"
_generate_cache_key(file_path, mt) ==
    <<file_path, mt, thumbnail_size[1], thumbnail_size[2]>>

\* _create_thumbnail: the JPEG bytes of the file as it is now, or None when
\* Image.open or img.save raises (the exception is caught inside).
_create_thumbnail(file_path) ==
    LET f == files[abspath(file_path)]
    IN IF f.kind = "file" /\ f.ok
       THEN [tag |-> "jpeg", src |-> <<abspath(file_path), f.mtime>>,
             len |-> f.jpeg]
       ELSE None

\* An except clause that logs and raises again.
except_clause_reraise(e) == [tag |-> "raise", exc |-> e]

\* except Exception as e: ... return None
except_clause(e) == None

\* A loop condition that forgets the memory bound.
OverCapacity_countOnly == Cardinality(DOMAIN _cache) > max_cache_size

\* A loop condition that evicts one entry too many.
OverCapacity_atCapacity ==
    \/ Cardinality(DOMAIN _cache) >= max_cache_size
    \/ _current_memory_usage > max_memory_bytes

\* A loop condition that keeps a quarter of the memory bound free.
OverCapacity_headroom ==
    \/ Cardinality(DOMAIN _cache) > max_cache_size
    \/ 4 * _current_memory_usage > 3 * max_memory_bytes

\* A loop condition that never evicts the last entry.
OverCapacity_sparesLast ==
    /\ Cardinality(DOMAIN _cache) > 1
    /\ \/ Cardinality(DOMAIN _cache) > max_cache_size
       \/ _current_memory_usage > max_memory_bytes

\* The while condition of _evict_lru
OverCapacity ==
    \/ Cardinality(DOMAIN _cache) > max_cache_size
    \/ _current_memory_usage > max_memory_bytes

\* A victim chosen as the key accessed last.
oldest_key_mostRecent(d) ==
    LET most == CHOOSE x \in {d[i].t : i \in 1..Len(d)} :
                    \A j \in 1..Len(d) : x >= d[j].t
        first == CHOOSE i \in 1..Len(d) : d[i].t = most
    IN d[first].k

\* min(self._access_times.keys(), key=lambda k: self._access_times[k]):
\* the first key, in dict order, whose access time is the least.
oldest_key(d) ==
    LET least == CHOOSE x \in {d[i].t : i \in 1..Len(d)} :
                     \A j \in 1..Len(d) : x <= d[j].t
        first == CHOOSE i \in 1..Len(d) :
                     /\ d[i].t = least
                     /\ \A j \in 1..(i - 1) : d[j].t # least
    IN d[first].k

\* The statistics of a cache of its own, made for the call.
cache_stats_freshInstance ==
    [tag |-> "stats",
     cache_size |-> 0,
     max_cache_size |-> max_cache_size,
     memory_usage_mb |-> <<0, BytesPerMb>>,
     max_memory_mb |-> <<max_memory_bytes, BytesPerMb>>,
     thumbnail_size |-> thumbnail_size]

\* The dict get_cache_stats returns; a quotient x / (1024 * 1024) is kept as
\* the pair of its numerator and denominator.
cache_stats ==
    [tag |-> "stats",
     cache_size |-> Cardinality(DOMAIN _cache),
     max_cache_size |-> max_cache_size,
     memory_usage_mb |-> <<_current_memory_usage, BytesPerMb>>,
     max_memory_mb |-> <<max_memory_bytes, BytesPerMb>>,
     thumbnail_size |-> thumbnail_size]

----------------------------------------------------------------------------
(* The lock *)

Unlocked == [owner |-> NoThread, count |-> 0]

\* A lock that excludes nobody.
CanAcquire_noExclusion(t) == TRUE

\* get_cache_stats reading the counters without waiting for the lock.
CanAcquire_statsUnlocked(t) ==
    pc[t] = "stats_lock" \/ _lock.owner \in {NoThread, t}

\* A lock that lookups take without waiting for each other.
CanAcquire_lookupsShare(t) == pc[t] = "lock" \/ _lock.owner \in {NoThread, t}

\* RLock.acquire succeeds for a thread when the lock is free or its own.
CanAcquire(t) == _lock.owner \in {NoThread, t}

Acquired(t) == [owner |-> t, count |-> _lock.count + 1]

\* RLock.release: the exit of a "with self._lock" block.
Released ==
    IF _lock.count = 1 THEN Unlocked
    ELSE [owner |-> _lock.owner, count |-> _lock.count - 1]

----------------------------------------------------------------------------
(* Observers: history the claims speak about, never read by the cache *)

NoReturn == [tag |-> "pending"]

\* No list_files request is being served.
NoRequest == [pc |-> "idle"]
NoPath == ""

\* The observer of the specifications that watch nothing.
NoWatch == [tracing |-> FALSE, snapshots |-> FALSE, calls |-> <<>>,
            before |-> None]

\* The observer of the last calls; the observer of the cache as it was.
Tracing == [NoWatch EXCEPT !.tracing = TRUE]
Snapshots == [NoWatch EXCEPT !.snapshots = TRUE]

\* The last TraceLen calls that returned, oldest first, with what they
\* returned.
RecordCall(t, value) ==
    IF ~watch.tracing THEN watch
    ELSE LET all == Append(watch.calls, [op |-> op[t], ret |-> value])
         IN [watch EXCEPT
                !.calls = IF Len(all) <= TraceLen THEN all
                          ELSE SubSeq(all, Len(all) - TraceLen + 1, Len(all))]

\* The cache as it is when a call begins.
Snapshot ==
    IF ~watch.snapshots THEN watch
    ELSE [watch EXCEPT
             !.before = [tag |-> "cache", _cache |-> _cache,
                         _access_times |-> _access_times,
                         _current_memory_usage |-> _current_memory_usage]]

\* The calls of the LRU scenario: lookups of three distinct images.
LruPattern ==
    <<[p |-> PathA, h |-> "miss"], [p |-> PathB, h |-> "miss"],
      [p |-> PathA, h |-> "hit"], [p |-> PathC, h |-> "miss"]>>

\* lru_obs counts the calls made so far while they are exactly a prefix of
\* LruPattern, each returning a payload; any other call or a change of a
\* file sets it to -1 for good.
ObserveCall(t, value, h) ==
    IF /\ lru_obs \in 0..(Len(LruPattern) - 1)
       /\ op[t] = "lookup"
       /\ path[t] = LruPattern[lru_obs + 1].p
       /\ h = LruPattern[lru_obs + 1].h
       /\ value # None
    THEN lru_obs + 1
    ELSE -1

\* A call returns value to its caller.
Finish(t, value, h) ==
    /\ pc' = [pc EXCEPT ![t] = "idle"]
    /\ ret' = [ret EXCEPT ![t] = value]
    /\ hit' = [hit EXCEPT ![t] = h]
    /\ thumbnail' = [thumbnail EXCEPT ![t] = None]
    /\ lru_obs' = ObserveCall(t, value, h)
    /\ watch' = RecordCall(t, value)
    /\ UNCHANGED <<listing, dmVars, cmVars>>

\* A step inside a call.
Goto(t, label) ==
    /\ pc' = [pc EXCEPT ![t] = label]
    /\ UNCHANGED <<ret, lru_obs, listing, dmVars, cmVars, watch>>

\* The path whose repeated lookups are observed: the file that changes.
Watched == PathA

\* prev remembers the payload the last lookup of Watched returned, its key
\* and whether that entry has stayed in the cache, as long as the file has
\* not changed since that lookup began.  A finished call is folded in when
\* its thread makes its next call.
FoldPrev(t) ==
    IF op[t] = "lookup" /\ path[t] = Watched /\ ~dirty[t] /\ ret[t].tag = "b64"
    THEN [tag |-> "prev", ret |-> ret[t], key |-> cache_key[t],
          kept |-> cache_key[t] \in DOMAIN _cache]
    ELSE prev

\* The entries under the keys ks left the cache.
Forget(pv, ks) ==
    IF pv # None /\ pv.key \in ks THEN [pv EXCEPT !.kept = FALSE] ELSE pv

StartCall(t, o, p) ==
    /\ t \in callers
    /\ pc[t] = "idle"
    /\ op' = [op EXCEPT ![t] = o]
    /\ path' = [path EXCEPT ![t] = p]
    /\ ret' = [ret EXCEPT ![t] = NoReturn]
    /\ mtime' = [mtime EXCEPT ![t] = 0]
    /\ cache_key' = [cache_key EXCEPT ![t] = NoKey]
    /\ generated' = [generated EXCEPT ![t] = FALSE]
    /\ hit' = [hit EXCEPT ![t] = "none"]
    /\ dirty' = [dirty EXCEPT ![t] = FALSE]
    /\ evicted' = [evicted EXCEPT ![t] = 0]
    /\ prev' = FoldPrev(t)
    /\ watch' = Snapshot
    /\ UNCHANGED <<cacheVars, cfgVars, _lock, now, files, thumbnail, lru_obs>>

----------------------------------------------------------------------------
(* ThumbnailCache.get_thumbnail_base64 *)

CallLookup(t, p) ==
    /\ p \in inputs
    /\ StartCall(t, "lookup", p)
    /\ pc' = [pc EXCEPT ![t] = "isfile"]
    /\ UNCHANGED <<listing, dmVars, cmVars>>

\* if not os.path.isfile(file_path): return None
CheckIsFile(t) ==
    /\ pc[t] = "isfile"
    /\ IF isfile(path[t])
       THEN Goto(t, "ext") /\ UNCHANGED <<hit, thumbnail>>
       ELSE Finish(t, None, "none")
    /\ UNCHANGED <<cacheVars, cfgVars, _lock, now, files, op, path, keyVars,
                   generated, dirty, evicted, prev>>

\* if ext not in SUPPORTED_IMAGE_FORMATS: return None
CheckExt(t) ==
    /\ pc[t] = "ext"
    /\ IF splitext_lower(path[t]) \in SUPPORTED_IMAGE_FORMATS
       THEN Goto(t, "getmtime") /\ UNCHANGED <<hit, thumbnail>>
       ELSE Finish(t, None, "none")
    /\ UNCHANGED <<cacheVars, cfgVars, _lock, now, files, op, path, keyVars,
                   generated, dirty, evicted, prev>>

\* mtime = os.path.getmtime(file_path); cache_key = ...  When the file is
\* gone getmtime raises OSError, which the except clause turns into None.
GetMtime(t) ==
    /\ pc[t] = "getmtime"
    /\ LET f == files[abspath(path[t])]
       IN IF f.kind = "absent"
          THEN Finish(t, except_clause("OSError"), "none") /\ UNCHANGED keyVars
          ELSE /\ Goto(t, "lock")
               /\ mtime' = [mtime EXCEPT ![t] = f.mtime]
               /\ cache_key' = [cache_key EXCEPT
                                   ![t] = _generate_cache_key(path[t], f.mtime)]
               /\ UNCHANGED <<hit, thumbnail>>
    /\ UNCHANGED <<cacheVars, cfgVars, _lock, now, files, op, path,
                   generated, dirty, evicted, prev>>

AfterLock(label) ==
    CASE label = "lock" -> "check"
      [] label = "evict_lock" -> "evict"
      [] label = "clear_lock" -> "clear"
      [] label = "stats_lock" -> "stats"

\* with self._lock:
AcquireLock(t) ==
    /\ pc[t] \in {"lock", "evict_lock", "clear_lock", "stats_lock"}
    /\ CanAcquire(t)
    /\ _lock' = Acquired(t)
    /\ Goto(t, AfterLock(pc[t]))
    /\ UNCHANGED <<cacheVars, cfgVars, now, files, op, path, keyVars,
                   thumbnail, generated, hit, dirty, evicted, prev>>

\* A membership test that never finds the key.
InCache_never(key) == FALSE

\* if cache_key in self._cache
InCache(key) == key \in DOMAIN _cache

\* A hit that adds the size of the entry to the memory total again.
CheckCache_recounts(t) ==
    /\ pc[t] = "check"
    /\ IF InCache(cache_key[t])
       THEN /\ _access_times' = DictSet(_access_times, cache_key[t], now)
            /\ _current_memory_usage' =
                   _current_memory_usage + _cache[cache_key[t]].size
            /\ _lock' = Released
            /\ Finish(t, _cache[cache_key[t]].data, "hit")
       ELSE /\ Goto(t, "create")
            /\ hit' = [hit EXCEPT ![t] = "miss"]
            /\ UNCHANGED <<_access_times, _current_memory_usage, _lock,
                           thumbnail>>
    /\ UNCHANGED <<_cache, origin, cfgVars, now, files, op, path, keyVars,
                   generated, dirty, evicted, prev>>

\* The hit: record the access time, return the cached data.
CheckCache(t) ==
    /\ pc[t] = "check"
    /\ IF InCache(cache_key[t])
       THEN /\ _access_times' = DictSet(_access_times, cache_key[t], now)
            /\ _lock' = Released
            /\ Finish(t, _cache[cache_key[t]].data, "hit")
       ELSE /\ Goto(t, "create")
            /\ hit' = [hit EXCEPT ![t] = "miss"]
            /\ UNCHANGED <<_access_times, _lock, thumbnail>>
    /\ UNCHANGED <<_cache, _current_memory_usage, origin, cfgVars, now, files, op,
                   path, keyVars, generated, dirty, evicted, prev>>

\* A failure path that returns without leaving the with block.
CreateThumbnail_keepsLock(t) ==
    /\ pc[t] = "create"
    /\ generated' = [generated EXCEPT ![t] = TRUE]
    /\ LET thumbnail_bytes == _create_thumbnail(path[t])
       IN IF thumbnail_bytes = None
          THEN _lock' = _lock /\ Finish(t, None, "miss")
          ELSE /\ Goto(t, "insert")
               /\ thumbnail' = [thumbnail EXCEPT
                                   ![t] = b64encode(thumbnail_bytes)]
               /\ UNCHANGED <<_lock, hit>>
    /\ UNCHANGED <<cacheVars, cfgVars, now, files, op, path, keyVars, dirty,
                   evicted, prev>>

\* A failure that is remembered: the key is stored with no data.
CreateThumbnail_negativeEntry(t) ==
    /\ pc[t] = "create"
    /\ generated' = [generated EXCEPT ![t] = TRUE]
    /\ LET thumbnail_bytes == _create_thumbnail(path[t])
       IN IF thumbnail_bytes = None
          THEN /\ _cache' = FcnSet(_cache, cache_key[t],
                                   [data |-> None, size |-> 0])
               /\ _access_times' = DictSet(_access_times, cache_key[t], now)
               /\ origin' = FcnSet(origin, cache_key[t], <<path[t], mtime[t]>>)
               /\ _lock' = Released
               /\ Finish(t, None, "miss")
               /\ UNCHANGED _current_memory_usage
          ELSE /\ Goto(t, "insert")
               /\ thumbnail' = [thumbnail EXCEPT
                                   ![t] = b64encode(thumbnail_bytes)]
               /\ UNCHANGED <<cacheVars, _lock, hit>>
    /\ UNCHANGED <<cfgVars, now, files, op, path, keyVars, dirty, evicted,
                   prev>>

\* thumbnail_bytes = self._create_thumbnail(file_path), then the encoding
CreateThumbnail(t) ==
    /\ pc[t] = "create"
    /\ generated' = [generated EXCEPT ![t] = TRUE]
    /\ LET thumbnail_bytes == _create_thumbnail(path[t])
       IN IF thumbnail_bytes = None
          THEN _lock' = Released /\ Finish(t, None, "miss")
          ELSE /\ Goto(t, "insert")
               /\ thumbnail' = [thumbnail EXCEPT
                                   ![t] = b64encode(thumbnail_bytes)]
               /\ UNCHANGED <<_lock, hit>>
    /\ UNCHANGED <<cacheVars, cfgVars, now, files, op, path, keyVars, dirty,
                   evicted, prev>>

\* The keys stored for other modification times of the file at file_path.
StaleKeys(file_path, mt) ==
    {k \in DOMAIN _cache : origin[k][1] = file_path /\ origin[k][2] # mt}

\* A store that drops the entries of the file's earlier versions.
Insert_dropsStale(t) ==
    /\ pc[t] = "insert"
    /\ LET cache_item == [data |-> thumbnail[t], size |-> thumbnail[t].len]
           stale == StaleKeys(path[t], mtime[t])
           kept == [k \in DOMAIN _cache \ stale |-> _cache[k]]
       IN /\ _cache' = FcnSet(kept, cache_key[t], cache_item)
          /\ _access_times' =
                 DictSet(SelectSeq(_access_times, LAMBDA e : e.k \notin stale),
                         cache_key[t], now)
          /\ _current_memory_usage' =
                 _current_memory_usage - SumSizes(_cache, stale)
                     + cache_item.size
          /\ origin' = FcnSet([k \in DOMAIN origin \ stale |-> origin[k]],
                              cache_key[t], <<path[t], mtime[t]>>)
          /\ prev' = Forget(prev, stale)
    /\ Goto(t, "evict_lock")
    /\ UNCHANGED <<cfgVars, _lock, now, files, op, path, keyVars, thumbnail,
                   generated, hit, dirty, evicted>>

\* Store in cache: the item, its access time, the memory total.  The item's
\* 'created' stamp is written here and never read; it is left out.
Insert(t) ==
    /\ pc[t] = "insert"
    /\ LET cache_item == [data |-> thumbnail[t], size |-> thumbnail[t].len]
       IN /\ _cache' = FcnSet(_cache, cache_key[t], cache_item)
          /\ _access_times' = DictSet(_access_times, cache_key[t], now)
          /\ _current_memory_usage' = _current_memory_usage + cache_item.size
          /\ origin' = FcnSet(origin, cache_key[t], <<path[t], mtime[t]>>)
    /\ Goto(t, "evict_lock")
    /\ UNCHANGED <<cfgVars, _lock, now, files, op, path, keyVars, thumbnail,
                   generated, hit, dirty, evicted, prev>>

\* One test of the while condition of _evict_lru and, when it holds, one
\* pass through the loop body; del self._cache[oldest_key] raises KeyError
\* for a key the cache does not hold, which get_thumbnail_base64 catches.
EvictLRU(t) ==
    /\ pc[t] = "evict"
    /\ IF OverCapacity /\ _access_times # <<>>
       THEN LET k == oldest_key(_access_times)
            IN IF k \in DOMAIN _cache
               THEN /\ _current_memory_usage' =
                           _current_memory_usage - _cache[k].size
                    /\ _cache' = FcnDel(_cache, k)
                    /\ _access_times' = DictDel(_access_times, k)
                    /\ origin' = FcnDel(origin, k)
                    /\ evicted' = [evicted EXCEPT ![t] = @ + 1]
                    /\ prev' = Forget(prev, {k})
                    /\ Goto(t, "evict")
                    /\ UNCHANGED <<_lock, hit, thumbnail>>
               ELSE /\ _lock' = Unlocked
                    /\ Finish(t, except_clause("KeyError"), "miss")
                    /\ UNCHANGED <<cacheVars, evicted, prev>>
       ELSE /\ _lock' = Released
            /\ Goto(t, "return")
            /\ UNCHANGED <<cacheVars, evicted, prev, hit, thumbnail>>
    /\ UNCHANGED <<cfgVars, now, files, op, path, keyVars, generated, dirty>>

\* return thumbnail_base64, leaving the with block
ReturnThumbnail(t) ==
    /\ pc[t] = "return"
    /\ _lock' = Released
    /\ Finish(t, thumbnail[t], "miss")
    /\ UNCHANGED <<cacheVars, cfgVars, now, files, op, path, keyVars,
                   generated, dirty, evicted, prev>>

----------------------------------------------------------------------------
(* ThumbnailCache.clear_cache and get_cache_stats *)

CallClear(t) ==
    /\ StartCall(t, "clear", NoPath)
    /\ pc' = [pc EXCEPT ![t] = "clear_lock"]
    /\ UNCHANGED <<listing, dmVars, cmVars>>

\* A clear that forgets to reset the memory total.
ClearCache_danglingTotal(t) ==
    /\ pc[t] = "clear"
    /\ _cache' = EmptyDict
    /\ _access_times' = <<>>
    /\ origin' = EmptyDict
    /\ _lock' = Released
    /\ prev' = Forget(prev, DOMAIN _cache)
    /\ Finish(t, None, "none")
    /\ UNCHANGED <<_current_memory_usage, cfgVars, now, files, op, path,
                   keyVars, generated, dirty, evicted>>

\* A clear that drops the entries it can do without: all but the newest.
ClearCache_keepsNewest(t) ==
    /\ pc[t] = "clear"
    /\ LET keep == IF _access_times = <<>> THEN {}
                   ELSE {_access_times[Len(_access_times)].k}
       IN /\ _cache' = [k \in keep |-> _cache[k]]
          /\ origin' = [k \in keep |-> origin[k]]
          /\ _access_times' = SelectSeq(_access_times, LAMBDA e : e.k \in keep)
          /\ _current_memory_usage' = SumSizes(_cache, keep)
          /\ prev' = Forget(prev, DOMAIN _cache \ keep)
    /\ _lock' = Released
    /\ Finish(t, None, "none")
    /\ UNCHANGED <<cfgVars, now, files, op, path, keyVars, generated, dirty,
                   evicted>>

ClearCache(t) ==
    /\ pc[t] = "clear"
    /\ _cache' = EmptyDict
    /\ _access_times' = <<>>
    /\ _current_memory_usage' = 0
    /\ origin' = EmptyDict
    /\ _lock' = Released
    /\ prev' = Forget(prev, DOMAIN _cache)
    /\ Finish(t, None, "none")
    /\ UNCHANGED <<cfgVars, now, files, op, path, keyVars, generated, dirty,
                   evicted>>

CallStats(t) ==
    /\ StartCall(t, "stats", NoPath)
    /\ pc' = [pc EXCEPT ![t] = "stats_lock"]
    /\ UNCHANGED <<listing, dmVars, cmVars>>

\* Statistics that count as an access to every entry.
GetCacheStats_touches(t) ==
    /\ pc[t] = "stats"
    /\ _access_times' = [i \in 1..Len(_access_times) |->
                            [k |-> _access_times[i].k, t |-> now]]
    /\ _lock' = Released
    /\ Finish(t, cache_stats, "none")
    /\ UNCHANGED <<_cache, _current_memory_usage, origin, cfgVars, now, files,
                   op, path, keyVars, generated, dirty, evicted, prev>>

GetCacheStats(t) ==
    /\ pc[t] = "stats"
    /\ _lock' = Released
    /\ Finish(t, cache_stats, "none")
    /\ UNCHANGED <<cacheVars, cfgVars, now, files, op, path, keyVars,
                   generated, dirty, evicted, prev>>

----------------------------------------------------------------------------
(* main.list_files: the handler of GET /api/list-files.  It is a coroutine *)
(* without an await, so the event loop runs one request at a time; its     *)
(* lookups are calls of the module-level get_thumbnail_base64, made by the *)
(* event loop's thread.                                                    *)

Handler == 1

\* The characters of file names in ASCII order.
CharOrder == ".0123456789ABCDEFGHIJKLMNOPQRSTUVWXYZ_abcdefghijklmnopqrstuvwxyz"

Ord(c) == CHOOSE i \in 1..Len(CharOrder) : CharAt(CharOrder, i) = c

\* a < b for Python strings
RECURSIVE StrLess(_, _)
StrLess(a, b) ==
    IF b = "" THEN FALSE
    ELSE IF a = "" THEN TRUE
    ELSE IF CharAt(a, 1) = CharAt(b, 1) THEN StrLess(Tail(a), Tail(b))
    ELSE Ord(CharAt(a, 1)) < Ord(CharAt(b, 1))

\* key=lambda x: x.filename.lower()
SortKey(x) == lower(x.filename)

\* list.sort is stable: x goes before the first item with a greater key.
SortedInsert(sorted, x) ==
    LET after == {i \in 1..Len(sorted) : StrLess(SortKey(x), SortKey(sorted[i]))}
        at == IF after = {} THEN Len(sorted) + 1
              ELSE CHOOSE i \in after : \A j \in after : i <= j
    IN SubSeq(sorted, 1, at - 1) \o <<x>> \o SubSeq(sorted, at, Len(sorted))

\* file_list.sort(key=lambda x: x.filename.lower())
RECURSIVE SortByName(_)
SortByName(file_list) ==
    IF file_list = <<>> THEN <<>>
    ELSE SortedInsert(SortByName(SubSeq(file_list, 1, Len(file_list) - 1)),
                      file_list[Len(file_list)])

\* The orders os.listdir may return the names in.
Orders(names) ==
    {o \in [1..Cardinality(names) -> names] :
        \A i, j \in 1..Cardinality(names) : i # j => o[i] # o[j]}

HTTPException(status_code) ==
    [tag |-> "HTTPException", status_code |-> status_code]

ListFilesResponse(file_list) ==
    [tag |-> "ListFilesResponse", files |-> file_list]

FileInfo(filename, full_path) ==
    [filename |-> filename, full_path |-> full_path, thumbnail |-> None,
     image_url |-> None]

\* f"data:image/jpeg;base64,{thumbnail_base64}"
data_url(thumbnail_base64) ==
    [tag |-> "str", prefix |-> "data:image/jpeg;base64,",
     payload |-> thumbnail_base64]

\* f"/api/serve-image?file_path={quote(file_path)}"
serve_image_url(file_path) ==
    [tag |-> "str", prefix |-> "/api/serve-image?file_path=",
     quoted |-> file_path]

\* A handler that does not test what the lookup returned.
Truthy_always(v) == TRUE

\* if thumbnail_base64: a string that is not empty
Truthy(v) == v.tag = "b64" /\ v.len > 0

\* What a step of the handler outside a lookup leaves alone.
HandlerFrame ==
    UNCHANGED <<cacheVars, cfgVars, _lock, now, files, pc, op, path, keyVars,
                thumbnail, ret, generated, hit, dirty, evicted, prev, lru_obs,
                dmVars, cmVars, watch>>

\* A request arrives; the event loop is free.
CallListFiles(folder) ==
    /\ listing.pc \in {"idle", "done"}
    /\ pc[Handler] = "idle"
    /\ listing' = [pc |-> "validate", folder |-> folder, names |-> <<>>,
                   file_list |-> <<>>, file_info |-> None,
                   response |-> NoReturn]
    /\ HandlerFrame

\* if not os.path.exists(folder): 404; if not os.path.isdir(folder): 400
ValidateFolder ==
    /\ listing.pc = "validate"
    /\ listing' =
           IF ~exists(listing.folder)
           THEN [listing EXCEPT !.pc = "done", !.response = HTTPException(404)]
           ELSE IF ~isdir(listing.folder)
           THEN [listing EXCEPT !.pc = "done", !.response = HTTPException(400)]
           ELSE [listing EXCEPT !.pc = "listdir"]
    /\ HandlerFrame

\* for filename in os.listdir(folder); when the folder is no directory any
\* more os.listdir raises and the handler answers 500.
ListDir ==
    /\ listing.pc = "listdir"
    /\ IF isdir(listing.folder)
       THEN \E order \in Orders(listdir(listing.folder)) :
                listing' = [listing EXCEPT !.pc = "loop", !.names = order]
       ELSE listing' = [listing EXCEPT !.pc = "done",
                                       !.response = HTTPException(500)]
    /\ HandlerFrame

\* One pass through the loop body up to the lookup: directories are
\* skipped, other files get a FileInfo, image files a lookup.
ListNextFile ==
    /\ listing.pc = "loop"
    /\ listing.names # <<>>
    /\ LET filename == Head(listing.names)
           file_path == join(listing.folder, filename)
       IN IF ~isfile(file_path)
          THEN /\ listing' = [listing EXCEPT !.names = Tail(@)]
               /\ HandlerFrame
          ELSE IF ~is_image_file(file_path)
          THEN /\ listing' = [listing EXCEPT
                                 !.names = Tail(@),
                                 !.file_list =
                                     Append(@, FileInfo(filename, file_path))]
               /\ HandlerFrame
          ELSE /\ listing' = [listing EXCEPT
                                 !.pc = "thumb",
                                 !.file_info = FileInfo(filename, file_path)]
               /\ StartCall(Handler, "lookup", file_path)
               /\ pc' = [pc EXCEPT ![Handler] = "isfile"]
               /\ UNCHANGED <<dmVars, cmVars>>

\* The lookup has returned: the thumbnail when there is one, the image URL,
\* file_list.append(file_info).  An exception of the lookup is logged and
\* the file listed without either.
ListThumbnail ==
    /\ listing.pc = "thumb"
    /\ pc[Handler] = "idle"
    /\ LET thumbnail_base64 == ret[Handler]
           file_path == listing.file_info.full_path
           file_info ==
               IF thumbnail_base64.tag = "raise" THEN listing.file_info
               ELSE [listing.file_info EXCEPT
                        !.thumbnail = IF Truthy(thumbnail_base64)
                                      THEN data_url(thumbnail_base64)
                                      ELSE None,
                        !.image_url = serve_image_url(file_path)]
       IN listing' = [listing EXCEPT !.pc = "loop", !.names = Tail(@),
                                     !.file_list = Append(@, file_info),
                                     !.file_info = None]
    /\ HandlerFrame

\* After the loop: sort by name, return the response.
ListReturn ==
    /\ listing.pc = "loop"
    /\ listing.names = <<>>
    /\ listing' = [listing EXCEPT
                      !.pc = "done",
                      !.response =
                          ListFilesResponse(SortByName(listing.file_list))]
    /\ HandlerFrame

----------------------------------------------------------------------------
(* The environment: the file store and the wall clock *)

\* What a rewritten file holds: an image, or bytes that do not decode.
Contents == {[ok |-> TRUE, jpeg |-> JpegMid], [ok |-> FALSE, jpeg |-> 0]}

\* Every lookup of the file that is under way or not yet folded is disturbed.
Disturb(f) ==
    /\ dirty' = [t \in Threads |->
                    dirty[t] \/ (op[t] = "lookup" /\ abspath(path[t]) = f)]
    /\ prev' = IF abspath(Watched) = f THEN None ELSE prev
    /\ lru_obs' = -1

\* Another process writes the file: new content, a later modification time.
WriteFile(f, c) ==
    /\ f \in Writable
    /\ files[f].mtime < MaxMtime
    /\ files' = [files EXCEPT ![f] = [kind |-> "file", mtime |-> @.mtime + 1,
                                      ok |-> c.ok, jpeg |-> c.jpeg]]
    /\ Disturb(f)
    /\ UNCHANGED <<cacheVars, cfgVars, _lock, now, pc, op, path, keyVars,
                   thumbnail, ret, generated, hit, evicted, listing, dmVars, cmVars,
                   watch>>

\* Another process removes the file.
RemoveFile(f) ==
    /\ f \in Writable
    /\ files[f].kind = "file"
    /\ files' = [files EXCEPT ![f] = Absent(@.mtime)]
    /\ Disturb(f)
    /\ UNCHANGED <<cacheVars, cfgVars, _lock, now, pc, op, path, keyVars,
                   thumbnail, ret, generated, hit, evicted, listing, dmVars, cmVars,
                   watch>>

\* Time passes: a later time.time() reading is greater.  Without a Tick two
\* readings are equal (the resolution of the clock).  The clock is taken
\* never to run backwards.
Tick ==
    /\ now < MaxTime
    /\ now' = now + 1
    /\ UNCHANGED <<cacheVars, cfgVars, _lock, files, pc, op, path, keyVars,
                   thumbnail, ret, generated, hit, dirty, evicted, prev,
                   lru_obs, listing, dmVars, cmVars, watch>>

----------------------------------------------------------------------------
(* DownloadManager.  Its methods and the steps of its background tasks run *)
(* on the event loop, one at a time: a task runs from one await to the     *)
(* next without interruption.                                              *)

\* The ids uuid4 hands out, in the order of the calls.
DownloadIds == 1..MaxDownloads

\* No file at the path.
Missing == -1

\* total_size of a download, in chunks.
TotalSize == MaxChunks

NoMessage == ""

\* The DownloadInfo add_download creates.
DownloadInfo(download_id) ==
    [id |-> download_id, status |-> "pending", progress |-> 0,
     downloaded_size |-> 0, total_size |-> TotalSize,
     error_message |-> NoMessage, file_path |-> FALSE]

\* asyncio.create_task: a task that has not run yet.  A task is "created",
\* "suspended" at an await, or "done"; must_cancel says a CancelledError is
\* to be thrown into it at its next step.
create_task == [state |-> "created", must_cancel |-> FALSE]

\* A cancel that the task never notices.
cancel_ignored(task) == task

\* task.cancel(): no effect on a task that is done.
cancel(task) ==
    IF task.state = "done" THEN task ELSE [task EXCEPT !.must_cancel = TRUE]

\* A first step that runs the coroutine up to its first await even when the
\* task was cancelled before.
first_step_runsBody(task) == "run"

\* The first step of a task: a CancelledError thrown into a coroutine that
\* has not started ends it before its first statement, so neither the try
\* block nor its finally clause runs.
first_step(task) == IF task.must_cancel THEN "closed" ELSE "run"

\* progress_callback: downloaded_size and the percentage
progress_callback(download_info, downloaded_size) ==
    [download_info EXCEPT
        !.downloaded_size = downloaded_size,
        !.progress = IF download_info.total_size > 0
                     THEN (downloaded_size * 100) \div download_info.total_size
                     ELSE 0]

\* The except clauses: status FAILED and the message.
Failed(download_info, message) ==
    [download_info EXCEPT !.status = "failed", !.error_message = message]

\* The file after the clean-up of "except asyncio.CancelledError".
UnlinkPartial(download_info, size) ==
    IF download_info.file_path /\ size # Missing THEN Missing ELSE size

\* A clean-up after an error that removes the file whatever its size.
UnlinkIncomplete_always(download_info, size) ==
    IF download_info.file_path /\ size # Missing THEN Missing ELSE size

\* The file after the clean-up of "except Exception": removed when it is
\* smaller than 90% of total_size.
UnlinkIncomplete(download_info, size) ==
    IF /\ download_info.file_path /\ size # Missing
       /\ 10 * size < 9 * download_info.total_size
    THEN Missing ELSE size

\* The observer's record of a call: cancel_download returned value;
\* add_download returned the id (TRUE) or raised (FALSE).
Returned(o, id, value) ==
    [cancel_obs EXCEPT !.last = [op |-> o, id |-> id, value |-> value]]

CacheFrame ==
    UNCHANGED <<cacheVars, cfgVars, _lock, now, files, pc, op, path, keyVars,
                thumbnail, ret, generated, hit, dirty, evicted, prev, lru_obs,
                listing, watch>>

\* The frame of the download manager's steps.
DownloadFrame == CacheFrame /\ UNCHANGED cmVars

\* add_download: the record and the task, or the exception of the client.
AddDownload(found) ==
    /\ LET download_id == Cardinality(DOMAIN downloads) + 1
       IN IF found
          THEN /\ download_id \in DownloadIds
               /\ downloads' =
                      FcnSet(downloads, download_id, DownloadInfo(download_id))
               /\ active_downloads' =
                      FcnSet(active_downloads, download_id, create_task)
               /\ cancel_obs' = Returned("add_download", download_id, TRUE)
          ELSE /\ cancel_obs' = Returned("add_download", 0, FALSE)
               /\ UNCHANGED <<downloads, active_downloads>>
    /\ UNCHANGED disk
    /\ DownloadFrame

\* The finally clause of _download_file.
RemoveFromActive(download_id) ==
    IF download_id \in DOMAIN active_downloads
    THEN FcnDel(active_downloads, download_id)
    ELSE active_downloads

\* The first step of the task: _download_file up to the first await, or to
\* its end when get_download_url raises.
TaskFirstStep(download_id, url_found) ==
    /\ download_id \in DOMAIN active_downloads
    /\ active_downloads[download_id].state = "created"
    /\ IF first_step(active_downloads[download_id]) = "closed"
       THEN /\ active_downloads' =
                   [active_downloads EXCEPT
                       ![download_id] = [state |-> "done", must_cancel |-> FALSE]]
            /\ url_found
            /\ UNCHANGED downloads
       ELSE IF url_found
       THEN /\ downloads' = [downloads EXCEPT
                                ![download_id].status = "downloading",
                                ![download_id].file_path = TRUE]
            /\ active_downloads' =
                   [active_downloads EXCEPT ![download_id].state = "suspended"]
       ELSE /\ downloads' =
                   [downloads EXCEPT
                       ![download_id] = Failed(@, "File not found in version")]
            /\ active_downloads' = RemoveFromActive(download_id)
    /\ UNCHANGED <<disk, cancel_obs>>
    /\ DownloadFrame

\* download_file_async opens the file, then writes chunk after chunk and
\* calls progress_callback after each.
DownloadChunk(download_id) ==
    /\ download_id \in DOMAIN active_downloads
    /\ active_downloads[download_id].state = "suspended"
    /\ ~active_downloads[download_id].must_cancel
    /\ IF disk[download_id] = Missing
       THEN /\ disk' = [disk EXCEPT ![download_id] = 0]
            /\ UNCHANGED downloads
       ELSE /\ disk[download_id] < MaxChunks
            /\ disk' = [disk EXCEPT ![download_id] = @ + 1]
            /\ downloads' =
                   [downloads EXCEPT
                       ![download_id] =
                           progress_callback(@, disk[download_id] + 1)]
    /\ UNCHANGED <<active_downloads, cancel_obs>>
    /\ DownloadFrame

\* The await returns: the response has ended ("eof"), or the download has
\* raised a timeout or a client error; the verification, the except
\* Exception clause, the finally clause.
TaskReturn(download_id, outcome) ==
    /\ download_id \in DOMAIN active_downloads
    /\ active_downloads[download_id].state = "suspended"
    /\ ~active_downloads[download_id].must_cancel
    /\ outcome = "eof" => disk[download_id] # Missing
    /\ IF outcome = "eof" /\ disk[download_id] > 0
       THEN /\ downloads' =
                   [downloads EXCEPT
                       ![download_id].status = "completed",
                       ![download_id].progress = 100,
                       ![download_id].downloaded_size = disk[download_id]]
            /\ UNCHANGED disk
       ELSE /\ downloads' =
                   [downloads EXCEPT
                       ![download_id] =
                           Failed(@, IF outcome = "eof"
                                     THEN "Downloaded file is empty or missing"
                                     ELSE "Download failed")]
            /\ disk' = [disk EXCEPT
                           ![download_id] =
                               UnlinkIncomplete(downloads[download_id], @)]
    /\ active_downloads' = RemoveFromActive(download_id)
    /\ UNCHANGED cancel_obs
    /\ DownloadFrame

\* The await raises CancelledError: the except asyncio.CancelledError
\* clause, the finally clause.
TaskCancelled(download_id) ==
    /\ download_id \in DOMAIN active_downloads
    /\ active_downloads[download_id].state = "suspended"
    /\ active_downloads[download_id].must_cancel
    /\ downloads' = [downloads EXCEPT
                         ![download_id] = Failed(@, "Download was cancelled")]
    /\ disk' = [disk EXCEPT
                    ![download_id] = UnlinkPartial(downloads[download_id], @)]
    /\ active_downloads' = RemoveFromActive(download_id)
    /\ UNCHANGED cancel_obs
    /\ DownloadFrame

\* cancel_download
CancelDownload(download_id) ==
    /\ IF download_id \in DOMAIN active_downloads
       THEN /\ active_downloads' =
                   [active_downloads EXCEPT ![download_id] = cancel(@)]
            /\ downloads' =
                   IF download_id \in DOMAIN downloads
                   THEN [downloads EXCEPT
                            ![download_id] = Failed(@, "Download cancelled")]
                   ELSE downloads
            /\ cancel_obs' =
                   [Returned("cancel_download", download_id, TRUE) EXCEPT
                       !.accepted = @ \cup {download_id}]
       ELSE /\ cancel_obs' = Returned("cancel_download", download_id, FALSE)
            /\ UNCHANGED <<downloads, active_downloads>>
    /\ UNCHANGED disk
    /\ DownloadFrame

InitDownloadManager ==
    /\ downloads = <<>>
    /\ active_downloads = <<>>
    /\ disk = [download_id \in DownloadIds |-> Missing]
    /\ cancel_obs = [last |-> [op |-> "none", id |-> 0, value |-> FALSE],
                     accepted |-> {}]

----------------------------------------------------------------------------
(* ConversionManager.  Like the download manager it runs on the event     *)
(* loop; a task runs from one await to the next without interruption.     *)

ConversionIds == 1..MaxConversions

\* What convert_invokeai_to_a1111 does with a file: it returns success,
\* returns failure with a message, or raises.
Outcomes == {"ok", "fail", "raise"}

RECURSIVE SeqOfSet(_)
SeqOfSet(names) ==
    IF names = {} THEN <<>>
    ELSE LET x == CHOOSE y \in names : TRUE
         IN <<x>> \o SeqOfSet(names \ {x})

\* glob.glob(os.path.join(directory, "*.png")): the entries whose name ends
\* in ".png" and does not begin with a dot, in the order glob yields them.
glob_png(directory) ==
    SeqOfSet({join(directory, name) : name \in
                 {x \in listdir(directory) :
                     /\ Len(x) >= 4
                     /\ SubSeq(x, Len(x) - 3, Len(x)) = ".png"
                     /\ CharAt(x, 1) # "."}})

\* The ConversionInfo add_conversion creates; a quotient is kept as the
\* pair of its numerator and denominator.
ConversionInfo(conversion_id, directory, png_files) ==
    [id |-> conversion_id, directory |-> directory, status |-> "pending",
     progress |-> <<0, 1>>, processed_files |-> 0,
     total_files |-> Len(png_files), current_file |-> NoPath,
     error_message |-> NoMessage, download_url |-> FALSE,
     start_time |-> now, _zip_path |-> FALSE]

\* The task of _convert_images with the locals of the coroutine: the files,
\* what the converter makes of each, how many the loop has taken, the
\* lengths of converted_files and conversion_errors, whether temp_dir
\* has been made.
ConversionTask(png_files, results) ==
    [state |-> "created", must_cancel |-> FALSE, png_files |-> png_files,
     results |-> results, i |-> 0, converted |-> 0, errors |-> 0,
     temp_dir |-> FALSE]

\* A loop that gives up at the first file that raises.
ConvertFrom_stopsAtError(task) ==
    IF task.i = Len(task.png_files)
    THEN [task EXCEPT !.state = "finishing"]
    ELSE LET result == task.results[task.i + 1]
         IN IF result = "raise"
            THEN [task EXCEPT !.i = @ + 1, !.errors = @ + 1,
                              !.state = "finishing"]
            ELSE [task EXCEPT
                     !.i = @ + 1,
                     !.converted = IF result = "ok" THEN @ + 1 ELSE @,
                     !.errors = IF result = "fail" THEN @ + 1 ELSE @,
                     !.state = "suspended"]

\* The for loop from the next file up to the next await: a file that
\* raises is recorded as an error and the loop goes on at once; after a
\* file that converts or fails the task sleeps; after the last file the
\* loop ends.
RECURSIVE ConvertFrom(_)
ConvertFrom(task) ==
    IF task.i = Len(task.png_files)
    THEN [task EXCEPT !.state = "finishing"]
    ELSE LET result == task.results[task.i + 1]
         IN IF result = "raise"
            THEN ConvertFrom([task EXCEPT !.i = @ + 1, !.errors = @ + 1])
            ELSE [task EXCEPT
                     !.i = @ + 1,
                     !.converted = IF result = "ok" THEN @ + 1 ELSE @,
                     !.errors = IF result = "fail" THEN @ + 1 ELSE @,
                     !.state = "suspended"]

\* The fields the loop has written when it is at its i-th file.
InLoop(conversion_info, task) ==
    [conversion_info EXCEPT
        !.status = "processing",
        !.current_file = basename(task.png_files[task.i]),
        !.processed_files = task.i - 1,
        !.progress = <<(task.i - 1) * 100, Len(task.png_files)>>]

\* The fields written after the loop.
AfterLoop(conversion_info, task) ==
    [conversion_info EXCEPT
        !.status = "processing",
        !.processed_files = Len(task.png_files),
        !.progress = <<100, 1>>,
        !.current_file = NoPath]

\* The ZIP is written: COMPLETED, the download URL, the path of the ZIP.
Completed(conversion_info) ==
    [conversion_info EXCEPT
        !.status = "completed", !.download_url = TRUE, !._zip_path = TRUE]

\* What the observer knows of a job.
Observed(task, cancelled, ended) ==
    [cancelled |-> cancelled, made_temp |-> task.temp_dir,
     results |-> task.results, attempted |-> task.i,
     converted |-> task.converted, ended |-> ended]

ConversionFrame == CacheFrame /\ UNCHANGED dmVars

\* add_conversion: ValueError for a directory that does not exist, is no
\* directory or holds no PNG file; otherwise the record and the task.
AddConversion(directory, results) ==
    /\ LET conversion_id == Cardinality(DOMAIN conv_obs) + 1
           png_files == glob_png(directory)
       IN IF ~exists(directory) \/ ~isdir(directory) \/ png_files = <<>>
          THEN /\ results = <<>>
               /\ UNCHANGED cmVars
          ELSE /\ conversion_id \in ConversionIds
               /\ Len(results) = Len(png_files)
               /\ conversions' =
                      FcnSet(conversions, conversion_id,
                             ConversionInfo(conversion_id, directory,
                                            png_files))
               /\ active_conversions' =
                      FcnSet(active_conversions, conversion_id,
                             ConversionTask(png_files, results))
               /\ conv_obs' =
                      FcnSet(conv_obs, conversion_id,
                             Observed(ConversionTask(png_files, results),
                                      FALSE, "no"))
               /\ UNCHANGED temp_dirs
    /\ ConversionFrame

\* A record changed through the reference the task holds; the dict may no
\* longer hold it.
UpdateInfo(conversion_id, info) ==
    IF conversion_id \in DOMAIN conversions
    THEN [conversions EXCEPT ![conversion_id] = info]
    ELSE conversions

\* The task runs from the loop's next file to the next await or to its end.
\* At the end: without a converted file the exception, the removal of
\* temp_dir and FAILED; otherwise the ZIP and COMPLETED; the finally clause.
RunTask(conversion_id, resumed) ==
    LET task == ConvertFrom(resumed)
        info == conversions[conversion_id]
        cancelled == conv_obs[conversion_id].cancelled
    IN IF task.state = "suspended"
       THEN /\ conversions' = UpdateInfo(conversion_id, InLoop(info, task))
            /\ active_conversions' =
                   [active_conversions EXCEPT ![conversion_id] = task]
            /\ temp_dirs' = temp_dirs \cup {conversion_id}
            /\ conv_obs' = [conv_obs EXCEPT
                                ![conversion_id] =
                                    Observed(task, cancelled, "no")]
       ELSE /\ active_conversions' = FcnDel(active_conversions, conversion_id)
            /\ IF task.converted = 0
               THEN /\ conversions' =
                          UpdateInfo(conversion_id,
                                     [AfterLoop(info, task) EXCEPT
                                         !.status = "failed",
                                         !.error_message =
                                             "No files could be converted"])
                    /\ temp_dirs' = temp_dirs \ {conversion_id}
                    /\ conv_obs' = [conv_obs EXCEPT
                                        ![conversion_id] =
                                            Observed(task, cancelled, "failed")]
               ELSE /\ conversions' =
                          UpdateInfo(conversion_id,
                                     Completed(AfterLoop(info, task)))
                    /\ temp_dirs' = temp_dirs \cup {conversion_id}
                    /\ conv_obs' = [conv_obs EXCEPT
                                        ![conversion_id] =
                                            Observed(task, cancelled,
                                                     "completed")]

\* The first step of the task: PROCESSING, mkdtemp, the loop up to its
\* first await.  When mkdtemp raises the job is FAILED.  A task cancelled
\* before this step ends without running a statement.
ConversionFirstStep(conversion_id, mkdtemp_ok) ==
    /\ conversion_id \in DOMAIN active_conversions
    /\ LET task == active_conversions[conversion_id]
       IN /\ task.state = "created"
          /\ IF first_step(task) = "closed"
             THEN /\ mkdtemp_ok
                  /\ active_conversions' =
                         [active_conversions EXCEPT
                             ![conversion_id].state = "done",
                             ![conversion_id].must_cancel = FALSE]
                  /\ conv_obs' = [conv_obs EXCEPT
                                      ![conversion_id].ended = "failed"]
                  /\ UNCHANGED <<conversions, temp_dirs>>
             ELSE IF mkdtemp_ok
             THEN RunTask(conversion_id, [task EXCEPT !.temp_dir = TRUE])
             ELSE /\ conversions' =
                         UpdateInfo(conversion_id,
                                    Failed(conversions[conversion_id],
                                           "mkdtemp failed"))
                  /\ active_conversions' =
                         FcnDel(active_conversions, conversion_id)
                  /\ conv_obs' = [conv_obs EXCEPT
                                      ![conversion_id].ended = "failed"]
                  /\ UNCHANGED temp_dirs
    /\ ConversionFrame

\* asyncio.sleep returns: the loop goes on.
ConversionResume(conversion_id) ==
    /\ conversion_id \in DOMAIN active_conversions
    /\ active_conversions[conversion_id].state = "suspended"
    /\ ~active_conversions[conversion_id].must_cancel
    /\ RunTask(conversion_id, active_conversions[conversion_id])
    /\ ConversionFrame

\* asyncio.sleep raises CancelledError.  It is no Exception: neither the
\* except clause of the loop body nor the one that removes temp_dir
\* catches it; the except asyncio.CancelledError clause sets FAILED, and
\* the finally clause runs.
ConversionCancelled(conversion_id) ==
    /\ conversion_id \in DOMAIN active_conversions
    /\ active_conversions[conversion_id].state = "suspended"
    /\ active_conversions[conversion_id].must_cancel
    /\ conversions' =
           IF conversion_id \in DOMAIN conversions
           THEN UpdateInfo(conversion_id,
                           Failed(conversions[conversion_id],
                                  "Conversion was cancelled"))
           ELSE conversions
    /\ active_conversions' = FcnDel(active_conversions, conversion_id)
    /\ conv_obs' = [conv_obs EXCEPT ![conversion_id].ended = "failed"]
    /\ UNCHANGED temp_dirs
    /\ ConversionFrame

\* cancel_conversion
CancelConversion(conversion_id) ==
    /\ IF conversion_id \in DOMAIN active_conversions
       THEN /\ active_conversions' =
                   [active_conversions EXCEPT ![conversion_id] = cancel(@)]
            /\ conversions' =
                   IF conversion_id \in DOMAIN conversions
                   THEN UpdateInfo(conversion_id,
                                   Failed(conversions[conversion_id],
                                          "Conversion cancelled"))
                   ELSE conversions
            /\ conv_obs' = [conv_obs EXCEPT ![conversion_id].cancelled = TRUE]
       ELSE UNCHANGED <<conversions, active_conversions, conv_obs>>
    /\ UNCHANGED temp_dirs
    /\ ConversionFrame

SecondsPerHour == 3600

\* The test of cleanup_old_conversions for one record.
Removable(conversion_info, cutoff_time) ==
    /\ conversion_info.start_time < cutoff_time
    /\ conversion_info.status \in {"completed", "failed"}

\* cleanup_old_conversions: the old finished records are removed, and the
\* directory of the ZIP of those that have one.  The clock counts seconds.
CleanupOldConversions(max_age_hours) ==
    /\ LET cutoff_time == now - max_age_hours * SecondsPerHour
           to_remove == {id \in DOMAIN conversions :
                            Removable(conversions[id], cutoff_time)}
       IN /\ conversions' =
                 [id \in DOMAIN conversions \ to_remove |-> conversions[id]]
          /\ temp_dirs' =
                 temp_dirs \ {id \in to_remove : conversions[id]._zip_path}
    /\ UNCHANGED <<active_conversions, conv_obs>>
    /\ ConversionFrame

InitConversionManager ==
    /\ conversions = <<>>
    /\ active_conversions = <<>>
    /\ temp_dirs = {}
    /\ conv_obs = <<>>

----------------------------------------------------------------------------
(* Specifications *)

InitCache ==
    /\ max_cache_size \in 0..MaxCacheSizeCfg
    /\ \E max_memory_mb \in 0..MaxMemoryMbCfg :
           max_memory_bytes = max_memory_mb * 1024 * 1024
    /\ _cache = EmptyDict
    /\ _access_times = <<>>
    /\ _lock = Unlocked
    /\ _current_memory_usage = 0
    /\ origin = EmptyDict

InitThreads ==
    /\ now = 0
    /\ pc = [t \in Threads |-> "idle"]
    /\ op = [t \in Threads |-> "none"]
    /\ path = [t \in Threads |-> NoPath]
    /\ mtime = [t \in Threads |-> 0]
    /\ cache_key = [t \in Threads |-> NoKey]
    /\ thumbnail = [t \in Threads |-> None]
    /\ ret = [t \in Threads |-> NoReturn]
    /\ generated = [t \in Threads |-> FALSE]
    /\ hit = [t \in Threads |-> "none"]
    /\ dirty = [t \in Threads |-> FALSE]
    /\ evicted = [t \in Threads |-> 0]
    /\ prev = None
    /\ lru_obs = 0
    /\ listing = NoRequest
    /\ InitDownloadManager
    /\ InitConversionManager

InitRest ==
    /\ InitThreads
    /\ watch = NoWatch

\* Two threads share one cache and look up three images, two of which do
\* not fit together in one megabyte.
Init ==
    /\ InitCache
    /\ InitRest
    /\ files = [InitialFiles EXCEPT ![abspath(PathC)] = Image(JpegMid)]
    /\ callers = Threads
    /\ inputs = {PathA, PathB, PathC}

\* One thread makes its calls one after the other, on every path, while
\* another process rewrites or removes a file.
InitSeq ==
    /\ InitCache
    /\ InitRest
    /\ files = InitialFiles
    /\ callers = {1}
    /\ inputs = AllPaths

\* One thread looks up names with and without an image extension, and two
\* images, while the file store stays as it is.
InitExt ==
    /\ InitCache
    /\ InitRest
    /\ files = InitialFiles
    /\ callers = {1}
    /\ inputs = ExtPaths \cup {PathA, PathB}

\* Two threads share one cache of one megabyte, which holds no entry or
\* one, and look up an image and a file that does not decode.
InitLive ==
    /\ InitCache
    /\ max_cache_size <= 1
    /\ max_memory_bytes = BytesPerMb
    /\ InitRest
    /\ files = InitialFiles
    /\ callers = Threads
    /\ inputs = {PathB, PathCorrupt}

\* The statements of a call that do not wait for anything.
RunStep(t) ==
    \/ CheckIsFile(t)
    \/ CheckExt(t)
    \/ GetMtime(t)
    \/ CheckCache(t)
    \/ CreateThumbnail(t)
    \/ Insert(t)
    \/ EvictLRU(t)
    \/ ReturnThumbnail(t)
    \/ ClearCache(t)
    \/ GetCacheStats(t)

\* The directory holds an image, a file that is no image under an image
\* name, a text file and an empty subdirectory; the event loop serves
\* list_files requests.
ListedFiles ==
    [f \in AllFiles |->
        IF f \in {abspath(Cwd), abspath(PathA), abspath(PathCorrupt),
                  abspath(PathTxt), abspath(PathDir)}
        THEN InitialFiles[f]
        ELSE Absent(0)]

InitList ==
    /\ InitCache
    /\ InitRest
    /\ files = ListedFiles
    /\ callers = {Handler}
    /\ inputs = {}

\* _thumbnail_cache = ThumbnailCache(): the instance of the module, with the
\* default limits, called through the module-level functions by one thread;
\* the last calls are observed.
InitGlobal ==
    /\ max_cache_size = DefaultMaxCacheSize
    /\ max_memory_bytes = DefaultMaxMemoryMb * 1024 * 1024
    /\ _cache = EmptyDict
    /\ _access_times = <<>>
    /\ _lock = Unlocked
    /\ _current_memory_usage = 0
    /\ origin = EmptyDict
    /\ InitThreads
    /\ watch = Tracing
    /\ files = InitialFiles
    /\ callers = {1}
    /\ inputs = {PathA, PathB, PathCorrupt}

\* One thread makes its calls one after the other while another process
\* rewrites or removes a file; the cache as it was when the call began is
\* observed.
InitWatch ==
    /\ InitCache
    /\ InitThreads
    /\ watch = Snapshots
    /\ files = InitialFiles
    /\ callers = {1}
    /\ inputs = {PathA, PathB, PathCorrupt, PathTxt, PathMissing}

\* Two threads share one empty cache and look up the same image while the
\* file store stays as it is; the calls that returned are observed.
InitRace ==
    /\ InitCache
    /\ InitThreads
    /\ watch = Tracing
    /\ files = InitialFiles
    /\ callers = Threads
    /\ inputs = {PathB}

\* One thread looks up three images, one of which has a thumbnail larger
\* than a megabyte, while the file store stays as it is.
InitBig ==
    /\ InitCache
    /\ InitRest
    /\ files = [InitialFiles EXCEPT ![abspath(PathC)] = Image(JpegBig)]
    /\ callers = {1}
    /\ inputs = {PathA, PathB, PathC}

\* The application's DownloadManager; nobody calls the thumbnail cache.
InitDownloads ==
    /\ max_cache_size = DefaultMaxCacheSize
    /\ max_memory_bytes = DefaultMaxMemoryMb * 1024 * 1024
    /\ _cache = EmptyDict
    /\ _access_times = <<>>
    /\ _lock = Unlocked
    /\ _current_memory_usage = 0
    /\ origin = EmptyDict
    /\ InitRest
    /\ files = InitialFiles
    /\ callers = {}
    /\ inputs = {}

\* The statements of a lookup.
LookupStep(t) ==
    \/ CheckIsFile(t)
    \/ CheckExt(t)
    \/ GetMtime(t)
    \/ AcquireLock(t)
    \/ CheckCache(t)
    \/ CreateThumbnail(t)
    \/ Insert(t)
    \/ EvictLRU(t)
    \/ ReturnThumbnail(t)

ThreadStep(t) ==
    \/ \E p \in AllPaths \cup ExtPaths : CallLookup(t, p)
    \/ CheckIsFile(t)
    \/ CheckExt(t)
    \/ GetMtime(t)
    \/ AcquireLock(t)
    \/ CheckCache(t)
    \/ CreateThumbnail(t)
    \/ Insert(t)
    \/ EvictLRU(t)
    \/ ReturnThumbnail(t)
    \/ CallClear(t)
    \/ ClearCache(t)
    \/ CallStats(t)
    \/ GetCacheStats(t)

\* The threads run while the file store stays as it is.
Next ==
    \/ \E t \in Threads : ThreadStep(t)
    \/ Tick

\* The threads run; the clock reading plays no part.
NextLive == \E t \in Threads : ThreadStep(t)

\* The threads run while another process changes the file store.
NextEnv ==
    \/ \E t \in Threads : ThreadStep(t)
    \/ \E f \in AllFiles : \E c \in Contents : WriteFile(f, c)
    \/ \E f \in AllFiles : RemoveFile(f)
    \/ Tick

\* The event loop serves one list_files request after the other.
NextList ==
    \/ \E folder \in Folders : CallListFiles(folder)
    \/ ValidateFolder
    \/ ListDir
    \/ ListNextFile
    \/ ListThumbnail
    \/ ListReturn
    \/ LookupStep(Handler)
    \/ Tick

\* The event loop runs the manager's methods and the steps of its tasks.
NextDownloads ==
    \/ \E found \in BOOLEAN : AddDownload(found)
    \/ \E download_id \in DownloadIds :
           \/ \E url_found \in BOOLEAN : TaskFirstStep(download_id, url_found)
           \/ DownloadChunk(download_id)
           \/ \E outcome \in {"eof", "error"} : TaskReturn(download_id, outcome)
           \/ TaskCancelled(download_id)
           \/ CancelDownload(download_id)

\* The lists of results the converter can give for the files of a folder.
ResultLists(directory) ==
    IF exists(directory) /\ isdir(directory)
    THEN [1..Len(glob_png(directory)) -> Outcomes]
    ELSE {<<>>}

\* The event loop runs the conversion manager's methods and the steps of
\* its tasks while time passes.
NextConversions ==
    \/ \E directory \in Folders :
           \E results \in ResultLists(directory) :
               AddConversion(directory, results)
    \/ \E conversion_id \in ConversionIds :
           \/ \E mkdtemp_ok \in BOOLEAN :
                  ConversionFirstStep(conversion_id, mkdtemp_ok)
           \/ ConversionResume(conversion_id)
           \/ ConversionCancelled(conversion_id)
           \/ CancelConversion(conversion_id)
    \/ \E max_age_hours \in 0..MaxTime : CleanupOldConversions(max_age_hours)
    \/ Tick

Spec == Init /\ [][Next]_vars

SpecSeq == InitSeq /\ [][NextEnv]_vars

SpecExt == InitExt /\ [][Next]_vars

SpecList == InitList /\ [][NextList]_vars

SpecGlobal == InitGlobal /\ [][Next]_vars

SpecWatch == InitWatch /\ [][NextEnv]_vars

SpecRace == InitRace /\ [][Next]_vars

SpecBig == InitBig /\ [][Next]_vars

SpecDownloads == InitDownloads /\ [][NextDownloads]_vars

SpecConversions == InitDownloads /\ [][NextConversions]_vars

\* Fair scheduling: a thread that can run does run, and a thread waiting for
\* the lock gets it if the lock is free again and again.
SpecLive ==
    /\ InitLive
    /\ [][NextLive]_vars
    /\ \A t \in Threads : WF_vars(RunStep(t)) /\ SF_vars(AcquireLock(t))

----------------------------------------------------------------------------
(* Properties *)

WithinCapacity ==
    /\ Cardinality(DOMAIN _cache) <= max_cache_size
    /\ _current_memory_usage <= max_memory_bytes

\* The statements inside "with self._lock" of the three operations.
InCriticalSection(t) ==
    pc[t] \in {"check", "create", "insert", "evict_lock", "evict", "return",
               "clear", "stats"}

\* C1: whenever no operation is under way inside the cache (every call that
\* entered has returned and released the lock), and already when a lookup
\* has finished the eviction that follows its insertion, the number of
\* entries is at most max_cache_size and the memory total is at most
\* max_memory_bytes.
C1_CapacityAfterEachCall ==
    /\ _lock = Unlocked => WithinCapacity
    /\ \A t \in Threads : pc[t] = "return" => WithinCapacity

\* C1 witness: a lookup has returned its payload after its insertion made
\* _evict_lru remove an entry, and the cache still holds an entry.
C1_Witness ==
    \E t \in Threads :
        /\ pc[t] = "idle" /\ op[t] = "lookup" /\ ret[t].tag = "b64"
        /\ evicted[t] >= 1
        /\ _lock = Unlocked
        /\ DOMAIN _cache # {}

\* C2: in every reachable state the memory total is the sum of the sizes of
\* the entries in the cache, and no key occurs twice in _access_times.
C2_MemoryAccounting ==
    /\ _current_memory_usage = SumSizes(_cache, DOMAIN _cache)
    /\ Cardinality(DictKeys(_access_times)) = Len(_access_times)

\* C2 witness: the cache holds two entries while one thread waits to clear
\* it and the other is inside a lookup.
C2_Witness ==
    \E t, u \in Threads :
        /\ pc[t] = "clear_lock"
        /\ pc[u] \in {"create", "insert", "evict_lock", "evict"}
        /\ Cardinality(DOMAIN _cache) = 2
        /\ _current_memory_usage > 0

\* A step that is not a step of thread t.
NotStepOf(t) == pc'[t] = pc[t] /\ evicted'[t] = evicted[t]

\* C8: at most one thread is inside a critical section, it holds the lock,
\* and while a thread is between its membership check and the end of its
\* insert-and-evict no step of anything else changes the cache state.
C8_CheckThenActIsAtomic ==
    /\ [](\A t, u \in Threads :
            InCriticalSection(t) =>
                /\ _lock.owner = t
                /\ (u # t => ~InCriticalSection(u)))
    /\ [][\A t \in Threads :
            (InCriticalSection(t) /\ NotStepOf(t)) =>
                UNCHANGED <<_cache, _access_times, _current_memory_usage>>]_vars

\* C8 witness: one thread is between its insertion and its eviction, with
\* the cache over capacity, while the other waits for the lock of a lookup.
C8_Witness ==
    \E t, u \in Threads :
        /\ pc[t] = "evict" /\ OverCapacity
        /\ pc[u] = "lock"

\* C9: whenever a thread is about to read the cache state inside its
\* operation (the membership check, the statistics, the clear) the cache is
\* within capacity, and no statistics ever returned report more than
\* max_cache_size entries or more than max_memory_bytes of memory.
C9_OverCapacityNeverObserved ==
    \A t \in Threads :
        /\ pc[t] \in {"check", "stats", "clear"} => WithinCapacity
        /\ ret[t].tag = "stats" =>
               /\ ret[t].cache_size <= max_cache_size
               /\ ret[t].memory_usage_mb[1] <= max_memory_bytes

\* C9 witness: a thread waits to read the statistics while the insertion
\* of another has the cache over capacity.
C9_Witness ==
    \E t, u \in Threads :
        /\ pc[t] = "stats_lock"
        /\ pc[u] \in {"evict_lock", "evict"} /\ OverCapacity

KeyA == _generate_cache_key(PathA, 0)
KeyB == _generate_cache_key(PathB, 0)
KeyC == _generate_cache_key(PathC, 0)

AllIdle == \A t \in Threads : pc[t] = "idle"

\* The memory bound does not bind for the three images of the LRU scenario.
MemoryNotBinding ==
    max_memory_bytes >=
        b64len(files[abspath(PathA)].jpeg) + b64len(files[abspath(PathB)].jpeg)
            + b64len(files[abspath(PathC)].jpeg)

\* C3: with max_cache_size = 2 and the memory bound not binding, once the
\* calls lookup(A) [miss], lookup(B) [miss], lookup(A) [hit], lookup(C)
\* [miss] have been made, and nothing else, the cache holds A and C: the
\* insertion of C evicted B.
C3_LruScenarioEvictsB ==
    (/\ lru_obs = Len(LruPattern)
     /\ AllIdle
     /\ max_cache_size = 2
     /\ MemoryNotBinding)
        => DOMAIN _cache = {KeyA, KeyC}

\* A lookup of Watched has returned, the file has not changed since an
\* earlier lookup of it began, and that earlier lookup returned a payload.
SecondLookup(t) ==
    /\ pc[t] = "idle" /\ op[t] = "lookup" /\ path[t] = Watched
    /\ ~dirty[t]
    /\ prev # None

\* C4 as stated: the second of two lookups of an unchanged image returns the
\* payload of the first and does not run _create_thumbnail.
C4_SecondLookupNeverGenerates ==
    \A t \in Threads :
        SecondLookup(t) => (ret[t] = prev.ret /\ ~generated[t])

\* C4 amended: the second of two lookups of an unchanged image returns the
\* payload of the first; it does not run _create_thumbnail when the entry
\* of the first is still in the cache (no eviction and no clear_cache
\* removed it in between).
C4_SecondLookupHitsWhileCached ==
    \A t \in Threads :
        SecondLookup(t) =>
            /\ ret[t] = prev.ret
            /\ prev.kept => (~generated[t] /\ hit[t] = "hit")

\* C4 witness: a second lookup of the unchanged image has returned while the
\* entry of the first was still cached.
C4_Witness ==
    \E t \in Threads : SecondLookup(t) /\ prev.kept /\ ret[t] = prev.ret

\* The version of the file the path names now.
CurrentVersion(p) == <<abspath(p), files[abspath(p)].mtime>>

\* C5: a lookup during which the file does not change returns the thumbnail
\* of the file as it is now, never one cached for an earlier version, and an
\* entry it hit had been stored for the modification time it read.
C5_ModifiedFileIsRegenerated ==
    \A t \in Threads :
        (pc[t] = "idle" /\ op[t] = "lookup" /\ ret[t].tag = "b64" /\ ~dirty[t])
            => /\ ret[t].src = CurrentVersion(path[t])
               /\ InCache(cache_key[t]) => origin[cache_key[t]][2] = mtime[t]

\* C5 witness: the file was rewritten after its thumbnail had been cached;
\* the next lookup generated the thumbnail of the new version while the
\* entry of the old version was still in the cache.
C5_Witness ==
    \E t \in Threads :
        /\ pc[t] = "idle" /\ op[t] = "lookup" /\ path[t] = PathA
        /\ ~dirty[t] /\ generated[t]
        /\ ret[t].tag = "b64" /\ ret[t].src = <<abspath(PathA), 1>>
        /\ KeyA \in DOMAIN _cache

\* The path names no regular file, has no supported extension, or names a
\* file that does not decode.
Unusable(p) ==
    \/ ~isfile(p)
    \/ splitext_lower(p) \notin SUPPORTED_IMAGE_FORMATS
    \/ ~files[abspath(p)].ok

\* C6: a lookup returns a payload or None and never raises; it returns None
\* for a path that names no regular file, has an unsupported extension or
\* names a file that does not decode.
C6_LookupNeverRaises ==
    \A t \in Threads :
        (pc[t] = "idle" /\ op[t] = "lookup")
            => /\ ret[t].tag \in {"None", "b64"}
               /\ (Unusable(path[t]) /\ ~dirty[t]) => ret[t] = None

\* C6 witness: the lookup of a file that is no image under an image name
\* ran _create_thumbnail and returned None.
C6_Witness ==
    \E t \in Threads :
        /\ pc[t] = "idle" /\ op[t] = "lookup" /\ path[t] = PathCorrupt
        /\ generated[t] /\ ret[t] = None

\* C7: when clear_cache has returned the cache holds no entry, no access
\* time and a memory total of 0, and get_cache_stats reports cache_size 0
\* and memory_usage_mb 0.
C7_ClearEmptiesTheCache ==
    \A t \in Threads :
        (pc[t] = "idle" /\ op[t] = "clear")
            => /\ DOMAIN _cache = {}
               /\ _access_times = <<>>
               /\ _current_memory_usage = 0
               /\ cache_stats.cache_size = 0
               /\ cache_stats.memory_usage_mb[1] = 0

\* C7 witness: clear_cache has returned after a lookup whose entry was in
\* the cache (two entries fit) when clear_cache was called.
C7_Witness ==
    \E t \in Threads :
        /\ pc[t] = "idle" /\ op[t] = "clear"
        /\ max_cache_size = 2 /\ max_memory_bytes > 0
        /\ prev # None /\ ~prev.kept

HitStep(t) == pc[t] = "check" /\ pc'[t] = "idle" /\ hit'[t] = "hit"

\* C11: the access time a hit writes for a key is strictly greater than the
\* one stored for the key before (by the insertion or by an earlier hit).
C11_AccessTimeStrictlyIncreases ==
    [][\A t \in Threads :
          HitStep(t) =>
              DictGet(_access_times', cache_key[t])
                  > DictGet(_access_times, cache_key[t])]_vars

\* The names is_image_file is expected to accept and to reject.
IsImageFileCases ==
    {<<"test.jpg", TRUE>>, <<"test.jpeg", TRUE>>, <<"test.png", TRUE>>,
     <<"test.bmp", TRUE>>, <<"test.tiff", TRUE>>, <<"test.tif", TRUE>>,
     <<"test.webp", TRUE>>, <<"test.gif", TRUE>>, <<"test.JPG", TRUE>>,
     <<"test.PNG", TRUE>>, <<"test.txt", FALSE>>, <<"test.pdf", FALSE>>,
     <<"test.doc", FALSE>>, <<"test.mp4", FALSE>>, <<"test", FALSE>>,
     <<"", FALSE>>, <<"test.jpg.txt", FALSE>>}

\* C12: is_image_file accepts exactly the names with a supported extension,
\* whatever its case; a lookup of a path whose extension is not supported
\* returns None and never gets to the statements that read the
\* modification time, take the lock, test or change the cache, or decode
\* the file.
C12_UnsupportedExtension ==
    /\ \A c \in IsImageFileCases : is_image_file(c[1]) = c[2]
    /\ \A t \in Threads :
          (op[t] = "lookup" /\ ~is_image_file(path[t]))
              => /\ pc[t] \in {"isfile", "ext", "idle"}
                 /\ cache_key[t] = NoKey
                 /\ ~generated[t]
                 /\ hit[t] = "none"
                 /\ _lock.owner # t
                 /\ pc[t] = "idle" => ret[t] = None

\* C12 witness: the lookup of an existing file named x.jpg.txt has returned
\* None while the cache holds an entry.
C12_Witness ==
    \E t \in Threads :
        /\ pc[t] = "idle" /\ op[t] = "lookup" /\ path[t] = PathDouble
        /\ isfile(PathDouble)
        /\ ret[t] = None
        /\ DOMAIN _cache # {}

\* Thread t is in the loop of _evict_lru, or past it.
InEvictLoop(t) == pc[t] \in {"evict", "return"}

\* The step is one pass of thread t through the body of the eviction loop.
EvictIteration(t) ==
    pc[t] = "evict" /\ pc'[t] = "evict" /\ evicted'[t] = evicted[t] + 1

\* C13: the loop of _evict_lru ends: a thread in the loop can always take
\* its next pass or leave (it waits for nothing), each pass through the body
\* removes exactly one entry and its access time, and the passes made plus
\* the entries left never exceed the entries a cache within its capacity
\* holds after one insertion.
C13_EvictionTerminates ==
    /\ [](\A t \in Threads :
             /\ pc[t] = "evict" => ENABLED EvictLRU(t)
             /\ InEvictLoop(t) =>
                    evicted[t] + Cardinality(DOMAIN _cache) <= max_cache_size + 1)
    /\ [][\A t \in Threads :
             (pc[t] = "evict" /\ ~NotStepOf(t) /\ pc'[t] # "return") =>
                 /\ EvictIteration(t)
                 /\ Cardinality(DOMAIN _cache') = Cardinality(DOMAIN _cache) - 1
                 /\ Len(_access_times') = Len(_access_times) - 1
                 /\ DOMAIN _cache' \subseteq DOMAIN _cache]_vars

\* C13 witness: with max_cache_size = 0 and max_memory_bytes = 0 the loop
\* has removed the entry just inserted and is about to test its condition
\* on the empty cache.
C13_Witness ==
    \E t \in Threads :
        /\ pc[t] = "evict" /\ evicted[t] = 1
        /\ max_cache_size = 0 /\ max_memory_bytes = 0
        /\ DOMAIN _cache = {}

LookedUp(n) == {_generate_cache_key(LruPattern[i].p, 0) : i \in 1..n}

\* C15: with the memory bound not binding, after successful lookups of
\* distinct images and nothing else, the cache holds one entry per image
\* when these are at most max_cache_size, and exactly max_cache_size
\* entries, all of them of these images, when they are more.
C15_ExactlyCapacityEntries ==
    (lru_obs >= 0 /\ AllIdle /\ MemoryNotBinding) =>
        IF Cardinality(LookedUp(lru_obs)) <= max_cache_size
        THEN DOMAIN _cache = LookedUp(lru_obs)
        ELSE /\ Cardinality(DOMAIN _cache) = max_cache_size
             /\ DOMAIN _cache \subseteq LookedUp(lru_obs)

\* C15 witness: three distinct images have been looked up with
\* max_cache_size = 2 and the cache holds two entries.
C15_Witness ==
    /\ lru_obs = Len(LruPattern) /\ AllIdle /\ MemoryNotBinding
    /\ max_cache_size = 2
    /\ Cardinality(LookedUp(lru_obs)) = 3
    /\ Cardinality(DOMAIN _cache) = 2

\* The names of the regular files of the folder.
RegularFiles(folder) ==
    {n \in listdir(folder) : isfile(join(folder, n))}

\* The thumbnail field of a listed file whose lookup returned value.
ThumbnailField(value) ==
    IF value.tag = "b64" THEN data_url(value) ELSE None

\* The step appends the FileInfo of the file whose lookup has returned.
ThumbnailStep == listing.pc = "thumb" /\ listing'.pc = "loop"

\* C16: a list_files request for a directory is answered with a
\* ListFilesResponse in which every regular file of the directory appears
\* exactly once; the thumbnail of an image file is the data URL of the
\* payload its lookup returned and null when the lookup returned None, and
\* the thumbnail of any other file is null.
C16_ListingSurvivesMissingThumbnails ==
    /\ [](listing.pc = "done" /\ isdir(listing.folder) =>
            LET fl == listing.response.files
                folder == listing.folder
            IN /\ listing.response.tag = "ListFilesResponse"
               /\ {fl[i].filename : i \in 1..Len(fl)} = RegularFiles(folder)
               /\ Len(fl) = Cardinality(RegularFiles(folder))
               /\ \A i \in 1..Len(fl) :
                      /\ fl[i].full_path = join(folder, fl[i].filename)
                      /\ ~is_image_file(fl[i].full_path) => fl[i].thumbnail = None
                      /\ fl[i].thumbnail # None <=>
                             /\ is_image_file(fl[i].full_path)
                             /\ _create_thumbnail(fl[i].full_path) # None)
    /\ [][ThumbnailStep =>
             LET fl == listing'.file_list
             IN fl[Len(fl)].thumbnail = ThumbnailField(ret[Handler])]_vars

\* C16 witness: the directory has been listed: the image with a thumbnail,
\* the file that does not decode and the text file without one.
C16_Witness ==
    /\ listing.pc = "done" /\ listing.folder = Cwd
    /\ listing.response.tag = "ListFilesResponse"
    /\ LET fl == listing.response.files
       IN /\ Len(fl) = 3
          /\ \E i \in 1..3 : /\ fl[i].filename = basename(PathA)
                               /\ fl[i].thumbnail # None
          /\ \E i \in 1..3 : /\ fl[i].filename = basename(PathCorrupt)
                               /\ fl[i].thumbnail = None
          /\ \E i \in 1..3 : /\ fl[i].filename = basename(PathTxt)
                               /\ fl[i].thumbnail = None

\* C17: a list_files request for a folder that does not exist is answered
\* with HTTP 404 and one for a path that is no directory with HTTP 400; such
\* a request makes no lookup, and no step taken while it is validated
\* changes the cache.
C17_BadFolderRejected ==
    /\ [](listing.pc # "idle" /\ ~isdir(listing.folder) =>
            /\ listing.pc \in {"validate", "done"}
            /\ pc[Handler] = "idle"
            /\ listing.pc = "done" =>
                   listing.response =
                       HTTPException(
                           IF files[abspath(listing.folder)].kind = "absent"
                           THEN 404 ELSE 400))
    /\ [][listing.pc = "validate" \/ listing'.pc = "validate" =>
             UNCHANGED <<_cache, _access_times, _current_memory_usage, _lock,
                         pc, op, path, ret>>]_vars

\* C17 witness: a request for a folder that does not exist has been answered
\* while the cache holds the thumbnail an earlier listing stored.
C17_Witness ==
    /\ listing.pc = "done" /\ listing.folder = FolderMissing
    /\ listing.response = HTTPException(404)
    /\ DOMAIN _cache # {}

\* The calls observed end with the ops given, oldest first.
EndsWith(ops) ==
    /\ watch.tracing
    /\ Len(watch.calls) >= Len(ops)
    /\ \A i \in 1..Len(ops) :
          watch.calls[Len(watch.calls) - Len(ops) + i].op = ops[i]

\* The call observed k calls before the last one.
Earlier(k) == watch.calls[Len(watch.calls) - k]

\* C18: the module-level functions work on one cache: get_cache_stats
\* called right after clear_thumbnail_cache and one successful lookup
\* reports cache_size 1, and called right after clear_thumbnail_cache it
\* reports cache_size 0.
C18_OneGlobalCache ==
    /\ (EndsWith(<<"clear", "lookup", "stats">>) /\ Earlier(1).ret.tag = "b64")
           => Earlier(0).ret.cache_size = 1
    /\ EndsWith(<<"clear", "stats">>) => Earlier(0).ret.cache_size = 0

\* C18 witness: clear, a successful lookup, stats reporting 1, clear, and a
\* get_cache_stats call is under way.
C18_Witness ==
    /\ EndsWith(<<"lookup", "stats", "clear">>)
    /\ Earlier(2).ret.tag = "b64"
    /\ Earlier(1).ret.cache_size = 1
    /\ \E t \in Threads : pc[t] = "stats"

\* Thread t's lookup has returned.
LookupReturned(t) == pc[t] = "idle" /\ op[t] = "lookup"

\* The entries and the memory total are as they were when the call began.
SameEntries ==
    /\ _cache = watch.before._cache
    /\ _current_memory_usage = watch.before._current_memory_usage

\* C19: a lookup that returned None has left the entries, every access time
\* and the memory total as they were when it was called; and an entry that
\* appears in the cache is the payload a thread has just generated.
C19_NoneLeavesCacheUnchanged ==
    /\ [](\A t \in callers :
             (LookupReturned(t) /\ ret[t] = None) =>
                 /\ SameEntries
                 /\ _access_times = watch.before._access_times)
    /\ [][\A k \in DOMAIN _cache' \ DOMAIN _cache :
             \E t \in Threads :
                 /\ pc[t] = "insert" /\ generated[t] /\ cache_key[t] = k
                 /\ thumbnail[t].tag = "b64"
                 /\ _cache'[k].data = thumbnail[t]]_vars

\* C19 witness: the lookup of a file that does not decode has returned None
\* and the cache holds the entry it held before.
C19_Witness ==
    \E t \in callers :
        /\ LookupReturned(t) /\ ret[t] = None /\ generated[t]
        /\ DOMAIN _cache # {}
        /\ SameEntries

\* C20: a lookup that was a hit has left the entries, the memory total, the
\* access times of the other keys and the order of the keys as they were
\* when it was called, and has evicted nothing.
C20_HitTouchesOneAccessTime ==
    \A t \in callers :
        (LookupReturned(t) /\ hit[t] = "hit") =>
            /\ SameEntries
            /\ evicted[t] = 0
            /\ ret[t] = _cache[cache_key[t]].data
            /\ _access_times =
                   DictSet(watch.before._access_times, cache_key[t],
                           DictGet(_access_times, cache_key[t]))

\* C20 witness: a hit in a cache of two entries has returned and the access
\* time of its key is a later one than before.
C20_Witness ==
    \E t \in callers :
        /\ LookupReturned(t) /\ hit[t] = "hit"
        /\ Cardinality(DOMAIN _cache) = 2
        /\ DictGet(_access_times, cache_key[t])
               > DictGet(watch.before._access_times, cache_key[t])

\* Thread t's step is a pass through the body of the eviction loop.
EvictStep(t) == pc[t] = "evict" /\ evicted'[t] = evicted[t] + 1

\* The position of key k in the dict d.
IndexOf(d, k) == CHOOSE i \in 1..Len(d) : d[i].k = k

\* The keys of d whose access time is the least.
LeastRecent(d) ==
    {k \in DictKeys(d) : \A j \in DictKeys(d) : DictGet(d, k) <= DictGet(d, j)}

\* C21: a pass through the eviction loop removes exactly one entry, whose
\* access time is at most that of every entry that stays, and subtracts its
\* size from the memory total in the same step; among the entries that
\* share the least access time the one removed is the one whose key comes
\* first in the dict, whichever thread evicts and whatever the clock reads.
C21_EvictsLeastRecentlyUsed ==
    [][\A t \in Threads :
          EvictStep(t) =>
              \E k \in DOMAIN _cache :
                  /\ _cache' = FcnDel(_cache, k)
                  /\ _access_times' = DictDel(_access_times, k)
                  /\ _current_memory_usage' =
                         _current_memory_usage - _cache[k].size
                  /\ k \in LeastRecent(_access_times)
                  /\ \A j \in DOMAIN _cache' :
                         DictGet(_access_times, k) <= DictGet(_access_times, j)
                  /\ \A j \in LeastRecent(_access_times) :
                         IndexOf(_access_times, k) <= IndexOf(_access_times, j)
      ]_vars

\* C21 witness: one entry of three with the same access time has been
\* evicted, the two that stay are still too large together, and the next
\* pass has to choose between them.
C21_Witness ==
    \E t \in Threads :
        /\ pc[t] = "evict" /\ evicted[t] = 1
        /\ OverCapacity
        /\ Len(_access_times) = 2
        /\ _access_times[1].t = _access_times[2].t

\* n entries of m bytes in all are more than the cache may hold.
ExceedsBounds(n, m) == n > max_cache_size \/ m > max_memory_bytes

\* C22: a pass through the eviction loop removes an entry only from a cache
\* that exceeds the entry bound or the memory bound, so the cache with the
\* entry just removed put back exceeds a bound; and a test of the loop
\* condition on a cache within both bounds leaves the cache as it is.
C22_EvictionIsMinimal ==
    [][\A t \in Threads :
          /\ EvictStep(t) =>
                 /\ ExceedsBounds(Cardinality(DOMAIN _cache),
                                  _current_memory_usage)
                 /\ \E k \in DOMAIN _cache \ DOMAIN _cache' :
                        ExceedsBounds(Cardinality(DOMAIN _cache') + 1,
                                      _current_memory_usage' + _cache[k].size)
          /\ (/\ pc[t] = "evict" /\ ~NotStepOf(t)
              /\ ~ExceedsBounds(Cardinality(DOMAIN _cache),
                                _current_memory_usage)) =>
                 /\ UNCHANGED <<_cache, _access_times, _current_memory_usage>>
                 /\ evicted'[t] = evicted[t]
                 /\ pc'[t] = "return"
      ]_vars

\* C22 witness: an eviction run has removed one entry and stopped with the
\* cache exactly full.
C22_Witness ==
    /\ max_cache_size > 0
    /\ \E t \in Threads :
           /\ pc[t] = "return" /\ evicted[t] = 1
           /\ Cardinality(DOMAIN _cache) = max_cache_size

\* Thread t's step is the body of clear_cache.
ClearStep(t) == pc[t] = "clear" /\ pc'[t] = "idle"

\* C23: an entry leaves the cache only in a pass through the eviction loop
\* or in clear_cache, and an entry that stays keeps its payload and size;
\* in particular the lookup of a rewritten file does not remove the entry
\* stored under the file's earlier modification time.
C23_StaleEntriesStay ==
    [][/\ \A k \in DOMAIN _cache \ DOMAIN _cache' :
              \E t \in Threads : EvictStep(t) \/ ClearStep(t)
       /\ \A k \in DOMAIN _cache \cap DOMAIN _cache' : _cache'[k] = _cache[k]
      ]_vars

\* C23 witness: the file was rewritten and looked up again; the entry of
\* the earlier modification time is in the cache beside the new one and
\* both are counted.
C23_Witness ==
    \E t \in callers :
        /\ LookupReturned(t) /\ path[t] = PathA /\ mtime[t] = 1
        /\ DOMAIN _cache = {KeyA, cache_key[t]}
        /\ cache_key[t] # KeyA
        /\ _current_memory_usage = _cache[KeyA].size + _cache[cache_key[t]].size

\* Thread t's step is the body of get_cache_stats.
StatsStep(t) == pc[t] = "stats" /\ pc'[t] = "idle"

\* C24: get_cache_stats changes no entry, no access time and no memory
\* total; it reports the number of entries the cache holds and, for
\* max_cache_size, max_memory_mb and thumbnail_size, the values the cache
\* was constructed with, which no operation changes.
C24_StatsAreReadOnly ==
    /\ [][\A t \in Threads :
             StatsStep(t) =>
                 /\ UNCHANGED <<_cache, _access_times, _current_memory_usage>>
                 /\ ret'[t].cache_size = Cardinality(DOMAIN _cache)
                 /\ ret'[t].max_cache_size = max_cache_size
                 /\ ret'[t].max_memory_mb = <<max_memory_bytes, 1024 * 1024>>
                 /\ ret'[t].thumbnail_size = <<150, 150>>]_vars
    /\ [][UNCHANGED <<max_cache_size, max_memory_bytes>>]_vars
    /\ [](/\ max_cache_size \in 0..MaxCacheSizeCfg
          /\ \E max_memory_mb \in 0..MaxMemoryMbCfg :
                 max_memory_bytes = max_memory_mb * 1024 * 1024)

\* C24 witness: after lookups that filled the cache and evicted an entry,
\* statistics were returned that report two entries, and the cache holds
\* them.
C24_Witness ==
    \E t, u \in Threads :
        /\ pc[t] = "idle" /\ ret[t].tag = "stats"
        /\ ret[t].cache_size = 2
        /\ Cardinality(DOMAIN _cache) = 2
        /\ evicted[u] > 0

\* Every thread has made exactly one call so far, a lookup of p: each has
\* begun a lookup of p, and the calls that have returned are as many as
\* the threads that are idle.
RaceOn(p) ==
    /\ \A t \in Threads : op[t] = "lookup" /\ path[t] = p
    /\ Len(watch.calls) = Cardinality({t \in Threads : pc[t] = "idle"})

\* The thumbnail of the image at p fits into the cache by itself.
Fits(p) ==
    /\ max_cache_size >= 1
    /\ b64encode(_create_thumbnail(p)).len <= max_memory_bytes

\* C25: when the threads have each looked up the same valid image on the
\* empty cache, in any interleaving, and its thumbnail fits, at most one of
\* them has generated it; once all have returned exactly one has, all got
\* the same payload, and the cache holds one entry, under the image's key,
\* whose size is the memory total.
C25_ConcurrentMissGeneratesOnce ==
    \A p \in inputs :
        (RaceOn(p) /\ Fits(p)) =>
            /\ Cardinality({t \in Threads : generated[t]}) <= 1
            /\ AllIdle =>
                   /\ Cardinality({t \in Threads : generated[t]}) = 1
                   /\ \A t \in Threads :
                          ret[t] = b64encode(_create_thumbnail(p))
                   /\ DOMAIN _cache = {_generate_cache_key(p, 0)}
                   /\ DictKeys(_access_times) = DOMAIN _cache
                   /\ Len(_access_times) = 1
                   /\ _current_memory_usage =
                          _cache[_generate_cache_key(p, 0)].size

\* C25 witness: one thread has generated and stored the thumbnail and not
\* yet left the lock while the other, which read the same modification
\* time, waits for the lock.
C25_Witness ==
    \E t, u \in Threads :
        /\ RaceOn(PathB) /\ Fits(PathB)
        /\ pc[t] = "return" /\ generated[t]
        /\ pc[u] = "lock" /\ cache_key[u] = cache_key[t]

\* The version of the file a key was computed for: the path given and the
\* modification time read before the lock was taken.
KeyedVersion(k) == <<abspath(origin[k][1]), origin[k][2]>>

\* C26: every entry holds the thumbnail of the version of the file its key
\* was computed for, also when the file is rewritten between the reading of
\* the modification time and the decoding.
C26_EntryMatchesKeyedVersion ==
    \A k \in DOMAIN _cache : _cache[k].data.src = KeyedVersion(k)

\* The thumbnail thread t's lookup generates cannot stay in the cache: it is
\* larger than max_memory_bytes, or max_cache_size is 0.
CannotStay(t) ==
    /\ op[t] = "lookup" /\ generated[t]
    /\ _create_thumbnail(path[t]) # None
    /\ \/ b64encode(_create_thumbnail(path[t])).len > max_memory_bytes
       \/ max_cache_size = 0

C28_NewEntryEvictedLast ==
    [][\A t \in Threads :
          (EvictStep(t) /\ cache_key[t] \notin DOMAIN _cache') =>
              DOMAIN _cache = {cache_key[t]}
      ]_vars

\* C28 witness: three entries were stored at the same clock reading; the
\* eviction run of the lookup that stored the third has removed the two
\* older ones and then its own.
C28_Witness ==
    \E t \in Threads :
        /\ pc[t] = "return" /\ evicted[t] = 3
        /\ now = 0
        /\ cache_key[t] \notin DOMAIN _cache

\* The changes of status a step may make.
StatusChanges ==
    {<<"pending", "downloading">>, <<"pending", "failed">>,
     <<"downloading", "completed">>, <<"downloading", "failed">>}

\* C29: a download's record starts with status PENDING and is never
\* removed; a step changes its status only from PENDING to DOWNLOADING or
\* FAILED, or from DOWNLOADING to COMPLETED or FAILED; so no step of the
\* task or of cancel_download changes a status that is COMPLETED or FAILED.
C29_CompletedAndFailedAreTerminal ==
    [][/\ DOMAIN downloads \subseteq DOMAIN downloads'
       /\ \A id \in DOMAIN downloads' \ DOMAIN downloads :
              downloads'[id].status = "pending"
       /\ \A id \in DOMAIN downloads :
              /\ downloads[id].status \in {"completed", "failed"} =>
                     downloads'[id].status = downloads[id].status
              /\ \/ downloads'[id].status = downloads[id].status
                 \/ <<downloads[id].status, downloads'[id].status>>
                        \in StatusChanges
      ]_vars

\* C29 witness: cancel_download has set a download that was under way to
\* FAILED, its task has then run its except clause and ended; another
\* download has been cancelled before its task ran and the task has ended.
C29_Witness ==
    \E id, other \in DOMAIN downloads :
        /\ id \in cancel_obs.accepted
        /\ downloads[id].status = "failed"
        /\ downloads[id].error_message = "Download was cancelled"
        /\ id \notin DOMAIN active_downloads
        /\ other \in cancel_obs.accepted
        /\ other \in DOMAIN active_downloads
        /\ active_downloads[other].state = "done"
        /\ downloads[other].status = "failed"

\* The step is a call cancel_download(id) that the observer has recorded.
CancelStep(id) ==
    /\ cancel_obs' # cancel_obs
    /\ cancel_obs'.last.op = "cancel_download"
    /\ cancel_obs'.last.id = id

\* C30: cancel_download returns True when the id is in active_downloads
\* and False when it is not, and a call that returns False changes no
\* record, no task and no file; a download for which it has returned True
\* has status FAILED and an error message from then on, whatever its task
\* does afterwards, so it is never COMPLETED.
C30_CancelReturnsWhetherActive ==
    /\ [][\A id \in DownloadIds :
             CancelStep(id) =>
                 /\ cancel_obs'.last.value = (id \in DOMAIN active_downloads)
                 /\ id \notin DOMAIN active_downloads =>
                        UNCHANGED <<downloads, active_downloads, disk>>]_vars
    /\ [](\A id \in cancel_obs.accepted :
             /\ downloads[id].status = "failed"
             /\ downloads[id].error_message # NoMessage)

\* C30 witness: a download was cancelled after its last chunk had been
\* written; its task has ended, and a second cancel_download for it has
\* returned False.
C30_Witness ==
    \E id \in cancel_obs.accepted :
        /\ downloads[id].downloaded_size = TotalSize
        /\ downloads[id].status = "failed"
        /\ id \notin DOMAIN active_downloads
        /\ cancel_obs.last =
               [op |-> "cancel_download", id |-> id, value |-> FALSE]

\* C31: a download whose task has ended is not in active_downloads, also
\* when it was cancelled before the task ran its first step, and every id
\* in active_downloads has a record in downloads.
C31_EndedDownloadsLeaveActive ==
    \A id \in DOMAIN active_downloads :
        /\ active_downloads[id].state # "done"
        /\ id \in DOMAIN downloads

\* The step is the last one of the task of download id: the task leaves
\* active_downloads.
EndStep(id) ==
    id \in DOMAIN active_downloads /\ id \notin DOMAIN active_downloads'

RECURSIVE CountOk(_)
CountOk(results) ==
    IF results = <<>> THEN 0
    ELSE (IF Head(results) = "ok" THEN 1 ELSE 0) + CountOk(Tail(results))

\* The task of the job has ended and nobody has cancelled the job.
EndedUncancelled(id) ==
    /\ id \notin DOMAIN active_conversions
    /\ ~conv_obs[id].cancelled

C34_FailedJobsLeaveNoTempDir ==
    \A id \in DOMAIN conv_obs :
        (id \notin DOMAIN active_conversions /\ conv_obs[id].ended = "failed")
            => id \notin temp_dirs

\* The task of the job is in active_conversions and has not ended.
Running(id) ==
    /\ id \in DOMAIN active_conversions
    /\ active_conversions[id].state # "done"

\* C35: a record leaves conversions only when it is older than the cutoff
\* and COMPLETED or FAILED, every other record stays as it is, and no
\* record whose task is still running in active_conversions is removed.
C35_CleanupSparesRunningJobs ==
    [][\A id \in DOMAIN conversions :
          IF id \in DOMAIN conversions'
          THEN active_conversions' = active_conversions
                   => conversions'[id] = conversions[id]
          ELSE /\ conversions[id].status \in {"completed", "failed"}
               /\ conversions[id].start_time < now
               /\ ~Running(id)]_vars

\* C36: _cache and _access_times hold the same keys in every reachable
\* state, and whenever _evict_lru is about to pick a key to evict, the key
\* it picks is in _cache, so that neither del statement raises.
C36_CacheAndAccessTimesShareKeys ==
    /\ DOMAIN _cache = DictKeys(_access_times)
    /\ \A t \in callers :
           (pc[t] = "evict" /\ OverCapacity /\ _access_times # <<>>)
               => oldest_key(_access_times) \in DOMAIN _cache

\* _evict_lru is about to evict from a cache of several entries, and the
\* key it picks is in _cache.
C36_Witness ==
    \E t \in callers :
        /\ pc[t] = "evict"
        /\ OverCapacity
        /\ Cardinality(DOMAIN _cache) >= 2
        /\ oldest_key(_access_times) \in DOMAIN _cache

====
